---- MODULE Spec2Model ----
(***************************************************************************)
(* PalmPot: the saved-recipe store of the PalmPotAVD component (load       *)
(* effect, handleSaveRecipe, handleDeleteRecipe over the localStorage slot *)
(* 'palmPotRecipes') and the recipe request flow (handleGenerateRecipe,    *)
(* handleSurpriseMe, generateNigerianRecipe with its two requests, its     *)
(* prompts and its image fallback), the shareable URL (the URL-init and   *)
(* URL-sync effects over window.location.search), the copy and share       *)
(* buttons with their labels and timers, the credential the service module *)
(* reads when it loads, a second browser session over the same slot, and   *)
(* the handlers of the App component next to those of PalmPotAVD.          *)
(*                                                                         *)
(* JavaScript values are tagged records, because the TypeScript types are  *)
(* erased at run time and JSON.parse returns whatever the text holds.      *)
(* A JavaScript string is the sequence of its UTF-16 code units.  A JSON   *)
(* text is the sequence of its tokens.                                     *)
(***************************************************************************)
EXTENDS Integers, Sequences, FiniteSets, TLC

(***************************************************************************)
(* JavaScript values                                                       *)
(***************************************************************************)
Undef == [k |-> "undefined"]

Null == [k |-> "null"]

Str(s) == [k |-> "string", s |-> s]

Num(n) == [k |-> "number", n |-> n]

Arr(a) == [k |-> "array", a |-> a]

Obj(f) == [k |-> "object", f |-> f]

IsArray(v) == v.k = "array"

IsString(v) == v.k = "string"

\* ToBoolean: undefined, null, "" and 0 are falsy, everything else is truthy.
Truthy(v) ==
    CASE v.k = "undefined" -> FALSE
      [] v.k = "null" -> FALSE
      [] v.k = "string" -> Len(v.s) > 0
      [] v.k = "number" -> v.n # 0
      [] OTHER -> TRUE

\* v.key throws a TypeError exactly when v is null or undefined.
PropThrows(v) == v.k \in {"undefined", "null"}

\* v.key for a v on which the read does not throw.
GetProp(v, key) ==
    CASE v.k = "object" -> IF key \in DOMAIN v.f THEN v.f[key] ELSE Undef
      [] v.k = "array" -> IF key = "length" THEN Num(Len(v.a)) ELSE Undef
      [] v.k = "string" -> IF key = "length" THEN Num(Len(v.s)) ELSE Undef
      [] OTHER -> Undef

\* a === b on the values a recipe name takes here (primitives compare by
\* value; two parsed arrays or objects are distinct references).
StrictEq(a, b) ==
    /\ a.k = b.k
    /\ CASE a.k = "string" -> a.s = b.s
         [] a.k = "number" -> a.n = b.n
         [] a.k \in {"undefined", "null"} -> TRUE
         [] OTHER -> FALSE

RECURSIVE Decimal(_)
\* The decimal digits of a natural number, as String(n) writes them.
Decimal(n) == IF n < 10 THEN <<48 + n>> ELSE Decimal(n \div 10) \o <<48 + (n % 10)>>

(***************************************************************************)
(* JSON texts.  A text is a sequence of tokens: the punctuation tokens     *)
(* "[" "]" "{" "}" ",", a property name with its colon, a string literal,  *)
(* a number literal, the literal null, and "?" for anything that is no     *)
(* JSON token.                                                             *)
(***************************************************************************)
P(c) == [t |-> c]

KeyTok(name) == [t |-> "key", name |-> name]

StrTok(s) == [t |-> "str", s |-> s]

NumTok(n) == [t |-> "num", n |-> n]

\* Property enumeration order of the objects of this program.
KeyOrder == <<"recipeName", "description", "ingredients", "instructions", "imageUrl">>

RECURSIVE Stringify(_)
RECURSIVE StringifyItems(_, _)
RECURSIVE StringifyMembers(_, _, _)

\* The elements a[i..] of an array, comma separated; undefined prints as null.
StringifyItems(a, i) ==
    IF i > Len(a) THEN <<>>
    ELSE (IF i > 1 THEN <<P(",")>> ELSE <<>>)
         \o (IF a[i].k = "undefined" THEN <<P("null")>> ELSE Stringify(a[i]))
         \o StringifyItems(a, i + 1)

\* The members KeyOrder[i..] of an object; a member whose value is undefined
\* is left out.  first: no member has been written yet.
StringifyMembers(f, i, first) ==
    IF i > Len(KeyOrder) THEN <<>>
    ELSE LET key == KeyOrder[i]
             has == key \in DOMAIN f /\ f[key].k # "undefined"
         IN  (IF has
              THEN (IF first THEN <<>> ELSE <<P(",")>>) \o <<KeyTok(key)>> \o Stringify(f[key])
              ELSE <<>>)
             \o StringifyMembers(f, i + 1, first /\ ~has)

\* JSON.stringify(v) for a v that is not undefined.
Stringify(v) ==
    CASE v.k = "string" -> <<StrTok(v.s)>>
      [] v.k = "number" -> <<NumTok(v.n)>>
      [] v.k = "array" -> <<P("[")>> \o StringifyItems(v.a, 1) \o <<P("]")>>
      [] v.k = "object" -> <<P("{")>> \o StringifyMembers(v.f, 1, TRUE) \o <<P("}")>>
      [] OTHER -> <<P("null")>>

Fail == [ok |-> FALSE]

Parsed(v, next) == [ok |-> TRUE, v |-> v, next |-> next]

RECURSIVE ParseValue(_, _)
RECURSIVE ParseItems(_, _, _)
RECURSIVE ParseMembers(_, _, _)

\* The rest of an array after its items acc: "]" ends it, "," value goes on.
ParseItems(toks, i, acc) ==
    IF i > Len(toks) THEN Fail
    ELSE IF toks[i].t = "]" THEN Parsed(Arr(acc), i + 1)
    ELSE IF toks[i].t = "," THEN
        LET r == ParseValue(toks, i + 1)
        IN  IF r.ok THEN ParseItems(toks, r.next, Append(acc, r.v)) ELSE Fail
    ELSE Fail

\* The rest of an object after its members f: "}" ends it, "," key value goes on.
ParseMembers(toks, i, f) ==
    IF i > Len(toks) THEN Fail
    ELSE IF toks[i].t = "}" THEN Parsed(Obj(f), i + 1)
    ELSE IF toks[i].t = "," /\ i + 1 <= Len(toks) /\ toks[i + 1].t = "key" THEN
        LET r == ParseValue(toks, i + 2)
            key == toks[i + 1].name
        IN  IF r.ok
            THEN ParseMembers(toks, r.next,
                     [x \in DOMAIN f \cup {key} |-> IF x = key THEN r.v ELSE f[x]])
            ELSE Fail
    ELSE Fail

\* One JSON value starting at token i.
ParseValue(toks, i) ==
    IF i > Len(toks) THEN Fail
    ELSE LET tok == toks[i] IN
         CASE tok.t = "str" -> Parsed(Str(tok.s), i + 1)
           [] tok.t = "num" -> Parsed(Num(tok.n), i + 1)
           [] tok.t = "null" -> Parsed(Null, i + 1)
           [] tok.t = "[" ->
                IF i + 1 <= Len(toks) /\ toks[i + 1].t = "]"
                THEN Parsed(Arr(<<>>), i + 2)
                ELSE LET r == ParseValue(toks, i + 1)
                     IN  IF r.ok THEN ParseItems(toks, r.next, <<r.v>>) ELSE Fail
           [] tok.t = "{" ->
                IF i + 1 <= Len(toks) /\ toks[i + 1].t = "}"
                THEN Parsed(Obj(<<>>), i + 2)
                ELSE IF i + 1 <= Len(toks) /\ toks[i + 1].t = "key"
                THEN LET r == ParseValue(toks, i + 2)
                         key == toks[i + 1].name
                     IN  IF r.ok
                         THEN ParseMembers(toks, r.next, [x \in {key} |-> r.v])
                         ELSE Fail
                ELSE Fail
           [] OTHER -> Fail

\* JSON.parse(text): the value, or a SyntaxError when the text is not exactly
\* one JSON value.
JSONParse(text) ==
    LET r == ParseValue(text, 1)
    IN  IF r.ok /\ r.next = Len(text) + 1
        THEN [ok |-> TRUE, v |-> r.v]
        ELSE [ok |-> FALSE, err |-> "SyntaxError"]

(***************************************************************************)
(* The inputs of the model                                                 *)
(***************************************************************************)
Suya == Str(<<83, 117, 121, 97>>)

SuyaLower == Str(<<115, 117, 121, 97>>)

MoiMoi == Str(<<77, 111, 105, 32, 77, 111, 105>>)

Recipe(name, description, ingredient, step) ==
    Obj([recipeName |-> name, description |-> Str(description),
         ingredients |-> Arr(<<Str(ingredient)>>),
         instructions |-> Arr(<<Str(step)>>)])

\* "Suya": hot, beef, grill
SuyaRecipe == Recipe(Suya, <<104, 111, 116>>, <<98, 101, 101, 102>>, <<103, 114, 105, 108, 108>>)

\* "Suya" again, with another description: mild
SuyaMild == Recipe(Suya, <<109, 105, 108, 100>>, <<98, 101, 101, 102>>, <<103, 114, 105, 108, 108>>)

\* "suya": the same name but for the case of its first letter
SuyaLowerRecipe == Recipe(SuyaLower, <<104, 111, 116>>, <<98, 101, 101, 102>>, <<103, 114, 105, 108, 108>>)

\* "Moi Moi": mild, beef, steam
MoiMoiRecipe == Recipe(MoiMoi, <<109, 105, 108, 100>>, <<98, 101, 101, 102>>, <<115, 116, 101, 97, 109>>)

\* "data:image/jpeg;base64,"
DataUrlPrefix ==
    <<100, 97, 116, 97, 58, 105, 109, 97, 103, 101, 47, 106, 112, 101, 103, 59,
      98, 97, 115, 101, 54, 52, 44>>

\* The image bytes the image service returns, base64: "QUJD"
ImageBytes == <<81, 85, 74, 68>>

\* Another image: "QUJE"
OtherImageBytes == <<81, 85, 74, 69>>

DataUrl(bytes) == Str(DataUrlPrefix \o bytes)

\* The (recipe, image reference) pairs handleSaveRecipe is called with.
SaveInputs ==
    { <<SuyaRecipe, DataUrl(ImageBytes)>>,
      <<SuyaMild, DataUrl(OtherImageBytes)>>,
      <<SuyaLowerRecipe, DataUrl(ImageBytes)>>,
      <<MoiMoiRecipe, DataUrl(OtherImageBytes)>>,
      <<MoiMoiRecipe, Str(<<>>)>>,
      <<Null, DataUrl(ImageBytes)>> }

\* The names handleDeleteRecipe is called with.
DeleteInputs == {Suya, SuyaLower, MoiMoi}

\* What the search box is set to: nothing, "Suya".
SearchInputs == {Str(<<>>), Suya}

\* The longest saved collection the model lets handleSaveRecipe build.
MaxSaved == 3

\* The length, in code units, of the longest text the slot takes: "Suya" and
\* "suya" fit together, no two recipes fit when one of them is "Moi Moi".
StorageQuota == 265

(***************************************************************************)
(* localStorage: the slot 'palmPotRecipes' holds no item or a text.        *)
(***************************************************************************)
NoItem == [present |-> FALSE]

Item(text) == [present |-> TRUE, text |-> text]

\* The slot before the application has ever written it.
CleanSlots == {NoItem, Item(<<>>)}

\* What else the slot may hold when something other than this component
\* wrote it: texts that are no JSON, JSON that is no array, and an array of
\* things that are no saved recipes.
ForeignSlots ==
    { Item(<<P("?")>>),
      Item(<<P("["), P("{")>>),
      Item(<<P("null")>>),
      Item(<<NumTok(42)>>),
      Item(<<P("{"), P("}")>>),
      Item(<<P("["), P("null"), P("]")>>) }

VARIABLES
    storage,        \* localStorage slot 'palmPotRecipes'
    mounted,        \* the component is mounted and its load effect has run
    savedRecipes,   \* useState<SavedRecipe[]>
    lastOp,         \* the store operation that ran last, its arguments and outcome,
                    \* or the startup that failed
    recipe,         \* useState<Recipe | null>
    imageUrl,       \* useState<string | null>
    isLoading,      \* useState<boolean>
    error,          \* useState<string | null>
    searchQuery,    \* useState<string>
    cuisine,        \* useState<string>
    mealType,       \* useState<string>
    locationSearch, \* window.location.search
    pc,             \* where the outstanding generateNigerianRecipe call waits
    genRecipe,      \* its local `recipe` while the image call is outstanding
    result,         \* how the last generateNigerianRecipe call settled
    textCall,       \* the request outstanding at ai.models.generateContent
    imageCall,      \* the request outstanding at ai.models.generateImages
    issued,         \* the requests sent to each service since the last user action
    active,         \* how many generateNigerianRecipe calls have not settled
    apiKey,         \* process.env.API_KEY
    other,          \* the component state of the browser session in the background
    kept,           \* the entries a save has stored whose name no delete was called with since
    linkCopyText,   \* useState<string>('Copy link') of PalmPotAVD
    copyText,       \* useState('Copy') of RecipeResultCard
    shareText,      \* useState('Share') of RecipeCard
    writes,         \* the navigator.clipboard.writeText calls each button waits for
    sharing,        \* the navigator.share calls the Share button waits for
    timers          \* the setTimeout callbacks of each button that have not run

storeVars == <<storage, savedRecipes>>

uiVars == <<recipe, imageUrl, isLoading, error>>

inputVars == <<searchQuery, cuisine, mealType, locationSearch>>

genVars == <<pc, genRecipe, result, textCall, imageCall, issued, active>>

labelVars == <<linkCopyText, copyText, shareText, writes, sharing, timers>>

hostVars == <<apiKey, other, kept>>

vars == <<storage, mounted, savedRecipes, lastOp, recipe, imageUrl, isLoading, error,
          searchQuery, cuisine, mealType, locationSearch, pc, genRecipe, result,
          textCall, imageCall, issued, active, apiKey, other, kept, linkCopyText,
          copyText, shareText, writes, sharing, timers>>

(***************************************************************************)
(* The saved collection                                                    *)
(***************************************************************************)
\* localStorage.getItem('palmPotRecipes'): the text, or null.
GetItem(slot) == IF slot.present THEN [isNull |-> FALSE, text |-> slot.text] ELSE [isNull |-> TRUE]

\* The load effect: the value savedRecipes has after it, from the initial [].
\* A null or empty item is skipped; a text JSON.parse rejects is caught.
LoadSaved(slot) ==
    LET saved == GetItem(slot)
    IN  IF saved.isNull \/ Len(saved.text) = 0 THEN Arr(<<>>)
        ELSE LET parsed == JSONParse(saved.text)
             IN  IF parsed.ok THEN parsed.v ELSE Arr(<<>>)

RECURSIVE SomeSameName(_, _, _)
\* savedRecipes.some(r => r.recipeName === name) from element i on:
\* "true", "false", or "throw" when an element read before any match is null.
SomeSameName(a, i, name) ==
    IF i > Len(a) THEN "false"
    ELSE IF PropThrows(a[i]) THEN "throw"
    ELSE IF StrictEq(GetProp(a[i], "recipeName"), name) THEN "true"
    ELSE SomeSameName(a, i + 1, name)

RECURSIVE FilterSameNames(_, _, _)
\* The filter with its test turned round: r.recipeName === name.
FilterSameNames(a, i, name) ==
    IF i > Len(a) THEN <<>>
    ELSE (IF StrictEq(GetProp(a[i], "recipeName"), name) THEN <<a[i]>> ELSE <<>>)
         \o FilterSameNames(a, i + 1, name)

RECURSIVE FilterOtherNames(_, _, _)
\* savedRecipes.filter(r => r.recipeName !== name) from element i on, for an
\* array none of whose elements is null.
FilterOtherNames(a, i, name) ==
    IF i > Len(a) THEN <<>>
    ELSE (IF StrictEq(GetProp(a[i], "recipeName"), name) THEN <<>> ELSE <<a[i]>>)
         \o FilterOtherNames(a, i + 1, name)

\* { ...recipeToSave, imageUrl: imageUrlToSave } for an object recipeToSave.
NewSavedRecipe(recipeToSave, imageUrlToSave) ==
    Obj([x \in DOMAIN recipeToSave.f \cup {"imageUrl"} |->
           IF x = "imageUrl" THEN imageUrlToSave ELSE recipeToSave.f[x]])

\* handleSaveRecipe without the test for a saved entry of the same name.
SaveOutcomeNoNameTest(saved, recipeToSave, imageUrlToSave) ==
    IF ~Truthy(recipeToSave) \/ ~Truthy(imageUrlToSave) THEN [do |-> "return"]
    ELSE IF ~IsArray(saved) THEN [do |-> "throw"]
    ELSE [do |-> "append",
          updated |-> Arr(Append(saved.a, NewSavedRecipe(recipeToSave, imageUrlToSave)))]

\* handleSaveRecipe with the test for a saved entry equal to the new one in
\* every field, in place of the test on the name alone.
SaveOutcomeSameEntryTest(saved, recipeToSave, imageUrlToSave) ==
    IF ~Truthy(recipeToSave) \/ ~Truthy(imageUrlToSave) THEN [do |-> "return"]
    ELSE IF ~IsArray(saved) THEN [do |-> "throw"]
    ELSE IF \E i \in 1..Len(saved.a) : PropThrows(saved.a[i]) THEN [do |-> "throw"]
    ELSE IF \E i \in 1..Len(saved.a) :
                saved.a[i] = NewSavedRecipe(recipeToSave, imageUrlToSave)
    THEN [do |-> "return"]
    ELSE [do |-> "append",
          updated |-> Arr(Append(saved.a, NewSavedRecipe(recipeToSave, imageUrlToSave)))]

\* What handleSaveRecipe does with the collection: "return" (the guard),
\* "throw" (savedRecipes.some is no function, or reads a null element), or
\* "append" with the updated collection.
SaveOutcome(saved, recipeToSave, imageUrlToSave) ==
    IF ~Truthy(recipeToSave) \/ ~Truthy(imageUrlToSave) THEN [do |-> "return"]
    ELSE IF ~IsArray(saved) THEN [do |-> "throw"]
    ELSE LET dup == SomeSameName(saved.a, 1, GetProp(recipeToSave, "recipeName"))
         IN  CASE dup = "throw" -> [do |-> "throw"]
               [] dup = "true" -> [do |-> "return"]
               [] OTHER -> [do |-> "append",
                            updated |-> Arr(Append(saved.a,
                                            NewSavedRecipe(recipeToSave, imageUrlToSave)))]

\* What handleDeleteRecipe does with the collection: "throw", or "filter"
\* with the updated collection.
DeleteOutcome(saved, recipeName) ==
    IF ~IsArray(saved) THEN [do |-> "throw"]
    ELSE IF \E i \in 1..Len(saved.a) : PropThrows(saved.a[i]) THEN [do |-> "throw"]
    ELSE [do |-> "filter", updated |-> Arr(FilterOtherNames(saved.a, 1, recipeName))]

RECURSIVE TextLength(_, _)
\* The length in code units of the text toks[i..]: a property name is
\* written with its quotes and colon, a string literal with its quotes.
TextLength(toks, i) ==
    IF i > Len(toks) THEN 0
    ELSE (CASE toks[i].t = "key" -> Len(toks[i].name) + 3
            [] toks[i].t = "str" -> Len(toks[i].s) + 2
            [] toks[i].t = "num" -> Len(Decimal(toks[i].n))
            [] toks[i].t = "null" -> 4
            [] OTHER -> 1)
         + TextLength(toks, i + 1)

\* localStorage.setItem('palmPotRecipes', JSON.stringify(updatedRecipes)):
\* the call stores the text, or throws QuotaExceededError and leaves the
\* slot as it was when the text is longer than the quota.
SetItem(slot, updatedRecipes) ==
    LET text == Stringify(updatedRecipes)
    IN  IF TextLength(text, 1) <= StorageQuota
        THEN [slot |-> Item(text), threw |-> "none"]
        ELSE [slot |-> slot, threw |-> "QuotaExceededError"]

(***************************************************************************)
(* generateNigerianRecipe: the image fallback                              *)
(***************************************************************************)
\* String(v) as a template literal computes it, for the values a parsed
\* recipeName takes here: "undefined", "null", the string itself.
ToStr(v) ==
    CASE v.k = "string" -> v.s
      [] v.k = "null" -> <<110, 117, 108, 108>>
      [] OTHER -> <<117, 110, 100, 101, 102, 105, 110, 101, 100>>

\* The code units encodeURIComponent leaves as they are:
\* A-Z a-z 0-9 - _ . ! ~ * ' ( )
Unreserved(c) ==
    \/ c \in 65..90
    \/ c \in 97..122
    \/ c \in 48..57
    \/ c \in {45, 95, 46, 33, 126, 42, 39, 40, 41}

HexDigit(n) == IF n < 10 THEN 48 + n ELSE 55 + n

\* "%XX" for one byte.
Pct(b) == <<37, HexDigit(b \div 16), HexDigit(b % 16)>>

\* The percent-encoded UTF-8 bytes of one code point.
PctUtf8(cp) ==
    IF cp < 128 THEN Pct(cp)
    ELSE IF cp < 2048 THEN Pct(192 + (cp \div 64)) \o Pct(128 + (cp % 64))
    ELSE IF cp < 65536
    THEN Pct(224 + (cp \div 4096)) \o Pct(128 + ((cp \div 64) % 64)) \o Pct(128 + (cp % 64))
    ELSE Pct(240 + (cp \div 262144)) \o Pct(128 + ((cp \div 4096) % 64))
         \o Pct(128 + ((cp \div 64) % 64)) \o Pct(128 + (cp % 64))

IsHighSurrogate(c) == c \in 55296..56319

IsLowSurrogate(c) == c \in 56320..57343

RECURSIVE EncodeFrom(_, _, _)
\* encodeURIComponent on s[i..], acc the output so far: a surrogate that is
\* not half of a pair throws URIError.
EncodeFrom(s, i, acc) ==
    IF i > Len(s) THEN [ok |-> TRUE, s |-> acc]
    ELSE IF Unreserved(s[i]) THEN EncodeFrom(s, i + 1, Append(acc, s[i]))
    ELSE IF IsLowSurrogate(s[i]) THEN [ok |-> FALSE, err |-> "URIError"]
    ELSE IF IsHighSurrogate(s[i]) THEN
        IF i + 1 <= Len(s) /\ IsLowSurrogate(s[i + 1])
        THEN EncodeFrom(s, i + 2,
                 acc \o PctUtf8(((s[i] - 55296) * 1024) + (s[i + 1] - 56320) + 65536))
        ELSE [ok |-> FALSE, err |-> "URIError"]
    ELSE EncodeFrom(s, i + 1, acc \o PctUtf8(s[i]))

EncodeURIComponent(s) == EncodeFrom(s, 1, <<>>)

\* A 32-bit integer as its two 16-bit halves (two's complement), so that no
\* intermediate value leaves the range of TLC's 32-bit integers.
Halves(h) ==
    IF h >= 0 THEN [hi |-> h \div 65536, lo |-> h % 65536]
    ELSE LET m == (h + 2147483647) + 1
         IN  [hi |-> 32768 + (m \div 65536), lo |-> m % 65536]

\* ToInt32 of the halves.
Int32(hi, lo) ==
    IF hi < 32768 THEN (hi * 65536) + lo
    ELSE ((((hi - 32768) * 65536) + lo) - 2147483647) - 1

\* hash << 5
Shl5(h) ==
    LET u == Halves(h)
        lo5 == u.lo * 32
    IN  Int32(((u.hi * 32) + (lo5 \div 65536)) % 65536, lo5 % 65536)

\* (a - b + c) | 0 for 32-bit a, b and a code unit c: the difference and the
\* sum are exact in a double, so the result is the value modulo 2^32.
SubAddInt32(a, b, c) ==
    LET x == Halves(a)
        y == Halves(b)
        lo == (x.lo - y.lo) + c
        hi == (x.hi - y.hi) + (IF lo < 0 THEN -1 ELSE lo \div 65536)
    IN  Int32(hi % 65536, lo % 65536)

\* The step without its subtraction: hash = (hash << 5) + charCode; hash |= 0
HashStepNoSubtract(hash, charCode) == SubAddInt32(Shl5(hash), 0, charCode)

\* hash = ((hash << 5) - hash) + charCode; hash |= 0
HashStep(hash, charCode) == SubAddInt32(Shl5(hash), hash, charCode)

RECURSIVE HashFrom(_, _, _)
\* The loop over recipeName from character i on.
HashFrom(name, i, hash) ==
    IF i > Len(name) THEN hash ELSE HashFrom(name, i + 1, HashStep(hash, name[i]))

\* String(Math.abs(hash)); Math.abs(-2^31) is 2147483648.
SigText(hash) ==
    IF hash >= 0 THEN Decimal(hash)
    ELSE IF hash = (-2147483647) - 1 THEN <<50, 49, 52, 55, 52, 56, 51, 54, 52, 56>>
    ELSE Decimal(0 - hash)

\* "https://source.unsplash.com/1280x720/?"
UnsplashPrefix ==
    <<104, 116, 116, 112, 115, 58, 47, 47, 115, 111, 117, 114, 99, 101, 46, 117,
      110, 115, 112, 108, 97, 115, 104, 46, 99, 111, 109, 47, 49, 50, 56, 48, 120,
      55, 50, 48, 47, 63>>

\* " nigerian food"
QuerySuffix == <<32, 110, 105, 103, 101, 114, 105, 97, 110, 32, 102, 111, 111, 100>>

\* "&sig="
SigParam == <<38, 115, 105, 103, 61>>

\* The catch block with the signature taken from the description of the
\* recipe in place of its name.
FallbackImageHashesDescription(parsedRecipe) ==
    LET name == GetProp(parsedRecipe, "recipeName")
        query == EncodeURIComponent(ToStr(name) \o QuerySuffix)
    IN  IF ~query.ok THEN [ok |-> FALSE, err |-> query.err]
        ELSE IF PropThrows(name) THEN [ok |-> FALSE, err |-> "TypeError"]
        ELSE LET hash == HashFrom(ToStr(GetProp(parsedRecipe, "description")), 1, 0)
             IN  [ok |-> TRUE,
                  url |-> Str(UnsplashPrefix \o query.s \o SigParam \o SigText(hash))]

\* The catch block of the image call: the fallback URL, or the error it
\* throws itself (encodeURIComponent on a lone surrogate; .length of a
\* recipeName that is undefined or null).
FallbackImage(parsedRecipe) ==
    LET name == GetProp(parsedRecipe, "recipeName")
        query == EncodeURIComponent(ToStr(name) \o QuerySuffix)
    IN  IF ~query.ok THEN [ok |-> FALSE, err |-> query.err]
        ELSE IF PropThrows(name) THEN [ok |-> FALSE, err |-> "TypeError"]
        ELSE LET hash == IF IsString(name) THEN HashFrom(name.s, 1, 0) ELSE 0
             IN  [ok |-> TRUE,
                  url |-> Str(UnsplashPrefix \o query.s \o SigParam \o SigText(hash))]

(***************************************************************************)
(* generateNigerianRecipe: the two service calls                           *)
(***************************************************************************)
\* The recipe of the text service carrying a name with a high surrogate
\* that has no low surrogate after it.
HalfPairRecipe ==
    Recipe(Str(<<83, 55356>>), <<104, 111, 116>>, <<98, 101, 101, 102>>, <<103, 114, 105, 108, 108>>)

\* What recipeResponse.text holds when the text service answers.
TextResponses ==
    { Stringify(MoiMoiRecipe),
      Stringify(HalfPairRecipe),
      Stringify(Obj([recipeName |-> Suya])),
      <<P("{"), P("}")>>,
      <<P("null")>>,
      <<P("{"), KeyTok("recipeName"), StrTok(Suya.s)>> }

\* What the text service throws: an Error with the message "429", or a
\* value that is no Error, the plain object { message: "503" }.
TextErrors ==
    { [isError |-> TRUE, message |-> <<52, 50, 57>>],
      [isError |-> FALSE, message |-> <<53, 48, 51>>] }

\* imageResponse.generatedImages when the image service answers: one image,
\* or none.
ImageResponses == { <<ImageBytes>>, <<>> }

\* "Failed to generate recipe. Please try again. Details: "
FailedPrefix ==
    <<70, 97, 105, 108, 101, 100, 32, 116, 111, 32, 103, 101, 110, 101, 114, 97,
      116, 101, 32, 114, 101, 99, 105, 112, 101, 46, 32, 80, 108, 101, 97, 115,
      101, 32, 116, 114, 121, 32, 97, 103, 97, 105, 110, 46, 32, 68, 101, 116,
      97, 105, 108, 115, 58, 32>>

\* "An unknown error occurred while generating the recipe."
UnknownErrorMessage ==
    <<65, 110, 32, 117, 110, 107, 110, 111, 119, 110, 32, 101, 114, 114, 111,
      114, 32, 111, 99, 99, 117, 114, 114, 101, 100, 32, 119, 104, 105, 108,
      101, 32, 103, 101, 110, 101, 114, 97, 116, 105, 110, 103, 32, 116, 104,
      101, 32, 114, 101, 99, 105, 112, 101, 46>>

\* The message of an error the runtime throws, standing for the engine's
\* wording: the name of the error.
RuntimeMessage(err) ==
    CASE err = "SyntaxError" -> <<83, 121, 110, 116, 97, 120, 69, 114, 114, 111, 114>>
      [] err = "URIError" -> <<85, 82, 73, 69, 114, 114, 111, 114>>
      [] OTHER -> <<84, 121, 112, 101, 69, 114, 114, 111, 114>>

RuntimeError(err) == [isError |-> TRUE, message |-> RuntimeMessage(err)]

\* The outer catch with the message of the Error left out.
RejectionNoDetail(e) ==
    IF e.isError THEN FailedPrefix ELSE UnknownErrorMessage

\* The outer catch: the Error generateNigerianRecipe rejects with.
Rejection(e) ==
    IF e.isError THEN FailedPrefix \o e.message ELSE UnknownErrorMessage

\* From the text answer to the image call: JSON.parse(recipeText), then the
\* read of recipe.recipeName for the log line. Either the parsed recipe or
\* the error thrown.
ParseRecipe(recipeText) ==
    LET parsed == JSONParse(recipeText)
    IN  IF ~parsed.ok THEN [ok |-> FALSE, err |-> parsed.err]
        ELSE IF PropThrows(parsed.v) THEN [ok |-> FALSE, err |-> "TypeError"]
        ELSE [ok |-> TRUE, recipe |-> parsed.v]

\* The image answer: generatedImages[0].image.imageBytes as a data URL, or the
\* TypeError of reading .image of undefined, which the inner catch handles.
ImageFromResponse(generatedImages) ==
    IF Len(generatedImages) = 0 THEN [ok |-> FALSE, err |-> "TypeError"]
    ELSE [ok |-> TRUE, url |-> DataUrl(generatedImages[1])]

NoResult == [st |-> "none"]

Resolved(r, url, image) == [st |-> "resolved", recipe |-> r, imageUrl |-> url, image |-> image]

Rejected(message, image) == [st |-> "rejected", message |-> message, image |-> image]

(***************************************************************************)
(* generateNigerianRecipe: the prompts of the two requests                 *)
(***************************************************************************)

\* "Any"
AnyOption == <<65, 110, 121>>

\* The opening of the prompt up to the dish: Generate a recipe for the Nigerian dish: "
DishOpening ==
    <<71, 101, 110, 101, 114, 97, 116, 101, 32, 97, 32, 114, 101, 99, 105,
      112, 101, 32, 102, 111, 114, 32, 116, 104, 101, 32, 78, 105, 103, 101,
      114, 105, 97, 110, 32, 100, 105, 115, 104, 58, 32, 34>>

\* The closing quote and full stop after the dish.
DishClosing == <<34, 46>>

\* "Generate a recipe for a popular and delicious Nigerian food."
PopularOpening ==
    <<71, 101, 110, 101, 114, 97, 116, 101, 32, 97, 32, 114, 101, 99, 105,
      112, 101, 32, 102, 111, 114, 32, 97, 32, 112, 111, 112, 117, 108, 97,
      114, 32, 97, 110, 100, 32, 100, 101, 108, 105, 99, 105, 111, 117, 115,
      32, 78, 105, 103, 101, 114, 105, 97, 110, 32, 102, 111, 111, 100, 46>>

\* " Provide a short, enticing description, a list of ingredients with
\* quantities, and simple, easy-to-follow, step-by-step cooking instructions.
\* The instructions should be beginner-friendly."
PromptBody ==
    <<32, 80, 114, 111, 118, 105, 100, 101, 32, 97, 32, 115, 104, 111, 114,
      116, 44, 32, 101, 110, 116, 105, 99, 105, 110, 103, 32, 100, 101, 115,
      99, 114, 105, 112, 116, 105, 111, 110, 44, 32, 97, 32, 108, 105, 115,
      116, 32, 111, 102, 32, 105, 110, 103, 114, 101, 100, 105, 101, 110,
      116, 115, 32, 119, 105, 116, 104, 32, 113, 117, 97, 110, 116, 105, 116,
      105, 101, 115, 44, 32, 97, 110, 100, 32, 115, 105, 109, 112, 108, 101,
      44, 32, 101, 97, 115, 121, 45, 116, 111, 45, 102, 111, 108, 108, 111,
      119, 44, 32, 115, 116, 101, 112, 45, 98, 121, 45, 115, 116, 101, 112,
      32, 99, 111, 111, 107, 105, 110, 103, 32, 105, 110, 115, 116, 114, 117,
      99, 116, 105, 111, 110, 115, 46, 32, 84, 104, 101, 32, 105, 110, 115,
      116, 114, 117, 99, 116, 105, 111, 110, 115, 32, 115, 104, 111, 117,
      108, 100, 32, 98, 101, 32, 98, 101, 103, 105, 110, 110, 101, 114, 45,
      102, 114, 105, 101, 110, 100, 108, 121, 46>>

\* " The recipe should be a classic dish from the "
CuisineOpening ==
    <<32, 84, 104, 101, 32, 114, 101, 99, 105, 112, 101, 32, 115, 104, 111,
      117, 108, 100, 32, 98, 101, 32, 97, 32, 99, 108, 97, 115, 115, 105, 99,
      32, 100, 105, 115, 104, 32, 102, 114, 111, 109, 32, 116, 104, 101, 32>>

\* " cuisine of Nigeria."
CuisineClosing ==
    <<32, 99, 117, 105, 115, 105, 110, 101, 32, 111, 102, 32, 78, 105, 103,
      101, 114, 105, 97, 46>>

\* " It should be suitable for "
MealOpening ==
    <<32, 73, 116, 32, 115, 104, 111, 117, 108, 100, 32, 98, 101, 32, 115,
      117, 105, 116, 97, 98, 108, 101, 32, 102, 111, 114, 32>>

\* "."
MealClosing == <<46>>

\* "A delicious, mouth-watering plate of Nigerian "
ImageOpening ==
    <<65, 32, 100, 101, 108, 105, 99, 105, 111, 117, 115, 44, 32, 109, 111,
      117, 116, 104, 45, 119, 97, 116, 101, 114, 105, 110, 103, 32, 112, 108,
      97, 116, 101, 32, 111, 102, 32, 78, 105, 103, 101, 114, 105, 97, 110,
      32>>

\* ", professionally photographed with vibrant colors, served hot."
ImageClosing ==
    <<44, 32, 112, 114, 111, 102, 101, 115, 115, 105, 111, 110, 97, 108, 108,
      121, 32, 112, 104, 111, 116, 111, 103, 114, 97, 112, 104, 101, 100, 32,
      119, 105, 116, 104, 32, 118, 105, 98, 114, 97, 110, 116, 32, 99, 111,
      108, 111, 114, 115, 44, 32, 115, 101, 114, 118, 101, 100, 32, 104, 111,
      116, 46>>

\* The prompt with the dish sentence also for an empty search query.
BuildPromptAlwaysDish(c, m, q) ==
    DishOpening \o ToStr(q) \o DishClosing
    \o PromptBody
    \o (IF Truthy(c) /\ ~StrictEq(c, Str(AnyOption))
        THEN CuisineOpening \o ToStr(c) \o CuisineClosing ELSE <<>>)
    \o (IF Truthy(m) /\ ~StrictEq(m, Str(AnyOption))
        THEN MealOpening \o ToStr(m) \o MealClosing ELSE <<>>)

\* The prompt without the test for 'Any': a clause for every filter that is
\* set.
BuildPromptNoAnyTest(c, m, q) ==
    (IF Truthy(q) THEN DishOpening \o ToStr(q) \o DishClosing ELSE PopularOpening)
    \o PromptBody
    \o (IF Truthy(c) THEN CuisineOpening \o ToStr(c) \o CuisineClosing ELSE <<>>)
    \o (IF Truthy(m) THEN MealOpening \o ToStr(m) \o MealClosing ELSE <<>>)

\* The prompt of the text request: the dish when a search query is given,
\* a popular dish otherwise, and a clause for each filter that is set and
\* is not 'Any'.
BuildPrompt(c, m, q) ==
    (IF Truthy(q) THEN DishOpening \o ToStr(q) \o DishClosing ELSE PopularOpening)
    \o PromptBody
    \o (IF Truthy(c) /\ ~StrictEq(c, Str(AnyOption))
        THEN CuisineOpening \o ToStr(c) \o CuisineClosing ELSE <<>>)
    \o (IF Truthy(m) /\ ~StrictEq(m, Str(AnyOption))
        THEN MealOpening \o ToStr(m) \o MealClosing ELSE <<>>)

\* The prompt of the image request, with the name of the parsed recipe.
ImagePrompt(parsedRecipe) ==
    ImageOpening \o ToStr(GetProp(parsedRecipe, "recipeName")) \o ImageClosing

JollofRice == Str(<<74, 111, 108, 108, 111, 102, 32, 82, 105, 99, 101>>)

\* The "Try:" chips: 'Jollof Rice', 'Egusi Soup', 'Suya', 'Ofada Rice'
quickPicks ==
    { JollofRice,
      Str(<<69, 103, 117, 115, 105, 32, 83, 111, 117, 112>>),
      Suya,
      Str(<<79, 102, 97, 100, 97, 32, 82, 105, 99, 101>>) }

Yoruba == Str(<<89, 111, 114, 117, 98, 97>>)

EfikIbibio == Str(<<69, 102, 105, 107, 47, 73, 98, 105, 98, 105, 111>>)

\* 'Any', 'Yoruba', 'Igbo', 'Hausa', 'Efik/Ibibio', 'Edo', 'Delta'
cuisineOptions ==
    { Str(AnyOption), Yoruba, Str(<<73, 103, 98, 111>>), Str(<<72, 97, 117, 115, 97>>),
      EfikIbibio, Str(<<69, 100, 111>>), Str(<<68, 101, 108, 116, 97>>) }

Dinner == Str(<<68, 105, 110, 110, 101, 114>>)

\* 'Any', 'Breakfast', 'Lunch', 'Dinner', 'Snack'
mealTypeOptions ==
    { Str(AnyOption), Str(<<66, 114, 101, 97, 107, 102, 97, 115, 116>>),
      Str(<<76, 117, 110, 99, 104>>), Dinner, Str(<<83, 110, 97, 99, 107>>) }

\* No request is outstanding at a service.
NoCall == [out |-> FALSE]

\* The request outstanding at a service.
Call(prompt) == [out |-> TRUE, prompt |-> prompt]

(***************************************************************************)
(* The shareable URL: window.location.search and URLSearchParams           *)
(***************************************************************************)
\* "q"
QName == <<113>>

\* "cuisine"
CuisineName == <<99, 117, 105, 115, 105, 110, 101>>

\* "meal"
MealName == <<109, 101, 97, 108>>

\* The code units the application/x-www-form-urlencoded serializer leaves
\* as they are: A-Z a-z 0-9 * - . _
FormUnreserved(c) ==
    \/ c \in 65..90
    \/ c \in 97..122
    \/ c \in 48..57
    \/ c \in {42, 45, 46, 95}

RECURSIVE FormEncodeFrom(_, _, _)
\* The serializer on s[i..], acc the output so far: a space is "+", any
\* other code point its percent-encoded UTF-8 bytes.  URLSearchParams.set
\* takes a USVString, so a surrogate that is not half of a pair has become
\* U+FFFD.
FormEncodeFrom(s, i, acc) ==
    IF i > Len(s) THEN acc
    ELSE IF FormUnreserved(s[i]) THEN FormEncodeFrom(s, i + 1, Append(acc, s[i]))
    ELSE IF s[i] = 32 THEN FormEncodeFrom(s, i + 1, Append(acc, 43))
    ELSE IF IsHighSurrogate(s[i]) /\ i + 1 <= Len(s) /\ IsLowSurrogate(s[i + 1])
    THEN FormEncodeFrom(s, i + 2,
             acc \o PctUtf8(((s[i] - 55296) * 1024) + (s[i + 1] - 56320) + 65536))
    ELSE IF IsHighSurrogate(s[i]) \/ IsLowSurrogate(s[i])
    THEN FormEncodeFrom(s, i + 1, acc \o PctUtf8(65533))
    ELSE FormEncodeFrom(s, i + 1, acc \o PctUtf8(s[i]))

FormEncode(s) == FormEncodeFrom(s, 1, <<>>)

RECURSIVE ParamsToString(_, _)
\* params.toString() from pair i on: name=value joined by "&".
ParamsToString(params, i) ==
    IF i > Len(params) THEN <<>>
    ELSE (IF i > 1 THEN <<38>> ELSE <<>>)
         \o FormEncode(params[i][1]) \o <<61>> \o FormEncode(params[i][2])
         \o ParamsToString(params, i + 1)

\* The URL-sync effect: the query string replaceState leaves in
\* window.location.search for the inputs q, c and m.
SyncUrl(q, c, m) ==
    LET params == (IF Truthy(q) THEN <<<<QName, ToStr(q)>>>> ELSE <<>>)
                  \o (IF Truthy(c) /\ ~StrictEq(c, Str(AnyOption))
                      THEN <<<<CuisineName, ToStr(c)>>>> ELSE <<>>)
                  \o (IF Truthy(m) /\ ~StrictEq(m, Str(AnyOption))
                      THEN <<<<MealName, ToStr(m)>>>> ELSE <<>>)
        text == ParamsToString(params, 1)
    IN  IF Len(text) > 0 THEN <<63>> \o text ELSE <<>>

\* The value of a hexadecimal digit, -1 for any other code unit.
HexVal(c) ==
    IF c \in 48..57 THEN c - 48
    ELSE IF c \in 65..70 THEN c - 55
    ELSE IF c \in 97..102 THEN c - 87
    ELSE 0 - 1

RECURSIVE PercentDecode(_, _)
\* The bytes of s[i..]: "+" is a space, "%XX" the byte XX.
PercentDecode(s, i) ==
    IF i > Len(s) THEN <<>>
    ELSE IF s[i] = 43 THEN <<32>> \o PercentDecode(s, i + 1)
    ELSE IF s[i] = 37 /\ i + 2 <= Len(s) /\ HexVal(s[i + 1]) >= 0 /\ HexVal(s[i + 2]) >= 0
    THEN <<(HexVal(s[i + 1]) * 16) + HexVal(s[i + 2])>> \o PercentDecode(s, i + 3)
    ELSE <<s[i]>> \o PercentDecode(s, i + 1)

\* A continuation byte of UTF-8.
IsCont(b, i) == i <= Len(b) /\ b[i] \in 128..191

\* The code units of one code point.
CodeUnits(cp) ==
    IF cp < 65536 THEN <<cp>>
    ELSE <<55296 + ((cp - 65536) \div 1024), 56320 + ((cp - 65536) % 1024)>>

RECURSIVE Utf8Decode(_, _)
\* The UTF-8 decoding of the bytes b[i..] into code units; a byte that
\* begins no well-formed sequence decodes to U+FFFD.
Utf8Decode(b, i) ==
    IF i > Len(b) THEN <<>>
    ELSE IF b[i] < 128 THEN <<b[i]>> \o Utf8Decode(b, i + 1)
    ELSE IF b[i] \in 194..223 /\ IsCont(b, i + 1)
    THEN <<((b[i] - 192) * 64) + (b[i + 1] - 128)>> \o Utf8Decode(b, i + 2)
    ELSE IF b[i] \in 224..239 /\ IsCont(b, i + 1) /\ IsCont(b, i + 2)
            /\ (b[i] = 224 => b[i + 1] >= 160) /\ (b[i] = 237 => b[i + 1] < 160)
    THEN <<((b[i] - 224) * 4096) + ((b[i + 1] - 128) * 64) + (b[i + 2] - 128)>>
         \o Utf8Decode(b, i + 3)
    ELSE IF b[i] \in 240..244 /\ IsCont(b, i + 1) /\ IsCont(b, i + 2) /\ IsCont(b, i + 3)
            /\ (b[i] = 240 => b[i + 1] >= 144) /\ (b[i] = 244 => b[i + 1] < 144)
    THEN CodeUnits(((b[i] - 240) * 262144) + ((b[i + 1] - 128) * 4096)
                   + ((b[i + 2] - 128) * 64) + (b[i + 3] - 128))
         \o Utf8Decode(b, i + 4)
    ELSE <<65533>> \o Utf8Decode(b, i + 1)

FormDecode(s) == Utf8Decode(PercentDecode(s, 1), 1)

RECURSIVE IndexOf(_, _, _)
\* The first index from i on at which s holds c, Len(s) + 1 when none does.
IndexOf(s, c, i) ==
    IF i > Len(s) THEN Len(s) + 1
    ELSE IF s[i] = c THEN i
    ELSE IndexOf(s, c, i + 1)

RECURSIVE ParsePairs(_, _)
\* The name-value pairs of the query text s[i..]: the pieces between "&",
\* each split at its first "=", empty pieces skipped.
ParsePairs(s, i) ==
    IF i > Len(s) THEN <<>>
    ELSE LET amp == IndexOf(s, 38, i)
             piece == SubSeq(s, i, amp - 1)
             eq == IndexOf(piece, 61, 1)
         IN  (IF Len(piece) = 0 THEN <<>>
              ELSE <<<<FormDecode(SubSeq(piece, 1, eq - 1)),
                       FormDecode(SubSeq(piece, eq + 1, Len(piece)))>>>>)
             \o ParsePairs(s, amp + 1)

\* new URLSearchParams(window.location.search): a leading "?" is dropped.
ParseSearch(search) ==
    IF Len(search) > 0 /\ search[1] = 63 THEN ParsePairs(search, 2) ELSE ParsePairs(search, 1)

RECURSIVE ParamsGet(_, _, _)
\* params.get(name): the value of the first pair of that name, or null.
ParamsGet(params, i, name) ==
    IF i > Len(params) THEN Null
    ELSE IF params[i][1] = name THEN Str(params[i][2])
    ELSE ParamsGet(params, i + 1, name)

\* The URL-init effect reading the meal type from the parameter 'mealType'.
InitFromUrlOtherMealName(search) ==
    LET params == ParseSearch(search)
        q == ParamsGet(params, 1, QName)
        c == ParamsGet(params, 1, CuisineName)
        m == ParamsGet(params, 1, <<109, 101, 97, 108, 84, 121, 112, 101>>)
    IN  [searchQuery |-> IF Truthy(q) THEN q ELSE Str(<<>>),
         cuisine |-> IF Truthy(c) THEN c ELSE Str(AnyOption),
         mealType |-> IF Truthy(m) THEN m ELSE Str(AnyOption)]

\* The URL-init effect: the inputs after it, from their initial values, for
\* the query string the page was opened with.
InitFromUrl(search) ==
    LET params == ParseSearch(search)
        q == ParamsGet(params, 1, QName)
        c == ParamsGet(params, 1, CuisineName)
        m == ParamsGet(params, 1, MealName)
    IN  [searchQuery |-> IF Truthy(q) THEN q ELSE Str(<<>>),
         cuisine |-> IF Truthy(c) THEN c ELSE Str(AnyOption),
         mealType |-> IF Truthy(m) THEN m ELSE Str(AnyOption)]

(***************************************************************************)
(* The state machine                                                       *)
(***************************************************************************)
\* No request has been sent since the last user action.
NoneIssued == [text |-> 0, image |-> 0]

\* The buttons that write to the clipboard or share: "Copy link" of
\* PalmPotAVD, "Copy" of RecipeResultCard and "Share" of RecipeCard.
Buttons == {"link", "copy", "share"}

\* The buttons of the card in the result area.
CardButtons == {"copy", "share"}

\* The useState initial value of each label, which its timer sets again.
DefaultLabel(b) ==
    CASE b = "link" -> "Copy link"
      [] b = "copy" -> "Copy"
      [] b = "share" -> "Share"

\* The label after a successful writeText.
CopiedLabel(b) == "Copied!"

\* The label set in the catch block.
ErrorLabel(b) == IF b = "copy" THEN "Error!" ELSE "Error"

\* No call of the button is outstanding.
NonePending == [b \in Buttons |-> 0]

\* A credential.
GeminiKey == Str(<<65, 73, 122, 97>>)

\* What process.env.API_KEY can hold: undefined, '' or a credential.
ApiKeys == {Undef, Str(<<>>), GeminiKey}

\* The state of a component that has not been rendered in a page opened
\* with the query string search.
Unmounted(search) ==
    [ mounted |-> FALSE, savedRecipes |-> Arr(<<>>), recipe |-> Null, imageUrl |-> Null,
      isLoading |-> FALSE, error |-> Null, searchQuery |-> Str(<<>>),
      cuisine |-> Str(AnyOption), mealType |-> Str(AnyOption), locationSearch |-> search,
      pc |-> "idle", genRecipe |-> Null, result |-> NoResult, textCall |-> NoCall,
      imageCall |-> NoCall, issued |-> NoneIssued, active |-> 0,
      linkCopyText |-> DefaultLabel("link"), copyText |-> DefaultLabel("copy"),
      shareText |-> DefaultLabel("share"), writes |-> NonePending, sharing |-> 0,
      timers |-> NonePending ]

\* The useState initial values, before the effects have run, in a page
\* opened with the query string search.
Mount(slot, search) ==
    /\ storage = slot
    /\ mounted = FALSE
    /\ savedRecipes = Arr(<<>>)
    /\ lastOp = [op |-> "init"]
    /\ recipe = Null
    /\ imageUrl = Null
    /\ isLoading = FALSE
    /\ error = Null
    /\ searchQuery = Str(<<>>)
    /\ cuisine = Str(AnyOption)
    /\ mealType = Str(AnyOption)
    /\ locationSearch = search
    /\ pc = "idle"
    /\ genRecipe = Null
    /\ result = NoResult
    /\ textCall = NoCall
    /\ imageCall = NoCall
    /\ issued = NoneIssued
    /\ active = 0
    /\ other = Unmounted(<<>>)
    /\ kept = {}
    /\ linkCopyText = DefaultLabel("link")
    /\ copyText = DefaultLabel("copy")
    /\ shareText = DefaultLabel("share")
    /\ writes = NonePending
    /\ sharing = 0
    /\ timers = NonePending

\* The build has a credential.
Configured == apiKey = GeminiKey

\* The slot has only ever been written by this component.
Init == Configured /\ \E slot \in CleanSlots : Mount(slot, <<>>)

\* The slot may hold anything.
InitForeign == Configured /\ \E slot \in CleanSlots \cup ForeignSlots : Mount(slot, <<>>)

\* The service module loading whatever process.env.API_KEY holds.
ModuleLoadsAnyway == TRUE

\* The service module throws while it loads when process.env.API_KEY is
\* falsy, and the component that imports it is never rendered.
ModuleLoads == Truthy(apiKey)

\* A page load with the query string search: a fresh component instance
\* and its effects, the load effect, the URL-init effect and the URL-sync
\* effect on the inputs the URL-init effect has set.
LoadPage(search) ==
    /\ ModuleLoads
    /\ mounted' = TRUE
    /\ savedRecipes' = LoadSaved(storage)
    /\ lastOp' = [op |-> "load"]
    /\ recipe' = Null
    /\ imageUrl' = Null
    /\ isLoading' = FALSE
    /\ error' = Null
    /\ searchQuery' = InitFromUrl(search).searchQuery
    /\ cuisine' = InitFromUrl(search).cuisine
    /\ mealType' = InitFromUrl(search).mealType
    /\ locationSearch' = SyncUrl(searchQuery', cuisine', mealType')
    /\ pc' = "idle"
    /\ genRecipe' = Null
    /\ result' = NoResult
    /\ textCall' = NoCall
    /\ imageCall' = NoCall
    /\ issued' = NoneIssued
    /\ active' = 0
    /\ linkCopyText' = DefaultLabel("link")
    /\ copyText' = DefaultLabel("copy")
    /\ shareText' = DefaultLabel("share")
    /\ writes' = NonePending
    /\ sharing' = 0
    /\ timers' = NonePending
    /\ UNCHANGED <<storage, hostVars>>

\* A page load with the query string search in a build that has no
\* credential: the service module throws while it loads, the component that
\* imports it is never rendered, and none of its effects runs.
StartupFails(search) ==
    /\ ~ModuleLoads
    /\ mounted' = FALSE
    /\ savedRecipes' = Arr(<<>>)
    /\ lastOp' = [op |-> "fatal"]
    /\ recipe' = Null
    /\ imageUrl' = Null
    /\ isLoading' = FALSE
    /\ error' = Null
    /\ searchQuery' = Str(<<>>)
    /\ cuisine' = Str(AnyOption)
    /\ mealType' = Str(AnyOption)
    /\ locationSearch' = search
    /\ pc' = "idle"
    /\ genRecipe' = Null
    /\ result' = NoResult
    /\ textCall' = NoCall
    /\ imageCall' = NoCall
    /\ issued' = NoneIssued
    /\ active' = 0
    /\ linkCopyText' = DefaultLabel("link")
    /\ copyText' = DefaultLabel("copy")
    /\ shareText' = DefaultLabel("share")
    /\ writes' = NonePending
    /\ sharing' = 0
    /\ timers' = NonePending
    /\ UNCHANGED <<storage, hostVars>>

\* The page is reloaded, or opened at its bare address.
Load == \E search \in {locationSearch, <<>>} : LoadPage(search)

\* handleSaveRecipe(recipeToSave, imageUrlToSave). setSavedRecipes runs
\* before setItem, so the new state stays when setItem throws. What the
\* step does to the history kept is said where the step is taken: Recorded
\* or Unrecorded.
handleSaveRecipe(recipeToSave, imageUrlToSave) ==
    LET out == SaveOutcome(savedRecipes, recipeToSave, imageUrlToSave)
        set == SetItem(storage, out.updated)
    IN  /\ mounted
        /\ out.do = "append" => Len(savedRecipes.a) < MaxSaved
        /\ IF out.do = "append"
           THEN /\ savedRecipes' = out.updated
                /\ storage' = set.slot
           ELSE UNCHANGED storeVars
        /\ lastOp' = [op |-> "save", recipe |-> recipeToSave, url |-> imageUrlToSave,
                      did |-> out.do,
                      threw |-> CASE out.do = "append" -> set.threw
                                  [] out.do = "throw" -> "TypeError"
                                  [] OTHER -> "none"]
        /\ UNCHANGED <<mounted, uiVars, inputVars, genVars, apiKey, other, labelVars>>

\* handleDeleteRecipe(recipeName), with the same order of setSavedRecipes
\* and setItem.
handleDeleteRecipe(recipeName) ==
    LET out == DeleteOutcome(savedRecipes, recipeName)
        set == SetItem(storage, out.updated)
    IN  /\ mounted
        /\ IF out.do = "filter"
           THEN /\ savedRecipes' = out.updated
                /\ storage' = set.slot
           ELSE UNCHANGED storeVars
        /\ lastOp' = [op |-> "delete", name |-> recipeName, did |-> out.do,
                      removed |-> IF out.do = "filter"
                                  THEN Len(savedRecipes.a) - Len(out.updated.a) ELSE 0,
                      threw |-> IF out.do = "filter" THEN set.threw ELSE "TypeError"]
        /\ UNCHANGED <<mounted, uiVars, inputVars, genVars, apiKey, other, labelVars>>

\* The history of the slot after the store operation op: a save that has
\* stored its entry adds the entry, a delete takes the entries of its name
\* away.
Kept(history, op) ==
    CASE op.op = "save" /\ op.did = "append" /\ op.threw = "none"
           -> history \cup {NewSavedRecipe(op.recipe, op.url)}
      [] op.op = "delete" /\ op.did = "filter"
           -> {e \in history : ~StrictEq(GetProp(e, "recipeName"), op.name)}
      [] OTHER -> history

\* The step of a store handler with the history recorded.
Recorded == kept' = Kept(kept, lastOp')

\* The step of a store handler in a specification that asks nothing of the
\* history.
Unrecorded == UNCHANGED kept

\* The controls without their disabled attribute.
ControlsNeverDisabled == FALSE

\* The Generate button, the Surprise-me button, the search input and the
\* filter chips are disabled while isLoading.
ControlsDisabled == isLoading

\* setSearchQuery from the search input's onChange and from a "Try:" chip,
\* and the URL-sync effect after it. The input is disabled while isLoading,
\* the chips are not.
setSearchQuery(q) ==
    /\ mounted
    /\ ControlsDisabled => q \in quickPicks
    /\ searchQuery' = q
    /\ locationSearch' = SyncUrl(q, cuisine, mealType)
    /\ UNCHANGED <<mounted, storeVars, lastOp, uiVars, cuisine, mealType, genVars, hostVars,
                   labelVars>>

\* setCuisine from a cuisine chip, disabled while isLoading.
setCuisine(c) ==
    /\ mounted
    /\ ~ControlsDisabled
    /\ cuisine' = c
    /\ locationSearch' = SyncUrl(searchQuery, c, mealType)
    /\ UNCHANGED <<mounted, storeVars, lastOp, uiVars, searchQuery, mealType, genVars, hostVars,
                   labelVars>>

\* setMealType from a meal chip, disabled while isLoading.
setMealType(m) ==
    /\ mounted
    /\ ~ControlsDisabled
    /\ mealType' = m
    /\ locationSearch' = SyncUrl(searchQuery, cuisine, m)
    /\ UNCHANGED <<mounted, storeVars, lastOp, uiVars, searchQuery, cuisine, genVars, hostVars,
                   labelVars>>

\* generateNigerianRecipe sending both requests at once, the image request
\* with the search query for a name.
generateNigerianRecipeBothCalls(c, m, q) ==
    /\ pc' = "text"
    /\ genRecipe' = Null
    /\ result' = NoResult
    /\ textCall' = Call(BuildPrompt(c, m, q))
    /\ imageCall' = Call(ImagePrompt(Obj([recipeName |-> q])))
    /\ issued' = [text |-> 1, image |-> 1]
    /\ active' = active + 1

\* generateNigerianRecipe(c, m, q) up to its first await: the text request
\* is sent.
generateNigerianRecipe(c, m, q) ==
    /\ pc' = "text"
    /\ genRecipe' = Null
    /\ result' = NoResult
    /\ textCall' = Call(BuildPrompt(c, m, q))
    /\ imageCall' = NoCall
    /\ issued' = [text |-> 1, image |-> 0]
    /\ active' = active + 1

\* The result area stops rendering the card while isLoading: the card's
\* state is gone, and what its outstanding calls and timers set has no
\* effect.
unmountCard ==
    /\ copyText' = DefaultLabel("copy")
    /\ shareText' = DefaultLabel("share")
    /\ writes' = [b \in Buttons |-> IF b \in CardButtons THEN 0 ELSE writes[b]]
    /\ sharing' = 0
    /\ timers' = [b \in Buttons |-> IF b \in CardButtons THEN 0 ELSE timers[b]]
    /\ UNCHANGED linkCopyText

\* handleGenerateRecipe without setRecipe(null) and setImageUrl(null).
handleGenerateRecipeKeepsResult ==
    /\ mounted
    /\ ~ControlsDisabled
    /\ isLoading' = TRUE
    /\ error' = Null
    /\ generateNigerianRecipe(cuisine, mealType, searchQuery)
    /\ unmountCard
    /\ UNCHANGED <<mounted, storeVars, lastOp, inputVars, hostVars, recipe, imageUrl>>

\* handleGenerateRecipe, up to its await.
handleGenerateRecipe ==
    /\ mounted
    /\ ~ControlsDisabled
    /\ isLoading' = TRUE
    /\ error' = Null
    /\ recipe' = Null
    /\ imageUrl' = Null
    /\ generateNigerianRecipe(cuisine, mealType, searchQuery)
    /\ unmountCard
    /\ UNCHANGED <<mounted, storeVars, lastOp, inputVars, hostVars>>

\* handleSurpriseMe without setError(null).
handleSurpriseMeKeepsError ==
    /\ mounted
    /\ ~ControlsDisabled
    /\ searchQuery' = Str(<<>>)
    /\ locationSearch' = SyncUrl(Str(<<>>), cuisine, mealType)
    /\ isLoading' = TRUE
    /\ recipe' = Null
    /\ imageUrl' = Null
    /\ generateNigerianRecipe(cuisine, mealType, Str(<<>>))
    /\ unmountCard
    /\ UNCHANGED <<mounted, storeVars, lastOp, cuisine, mealType, hostVars, error>>

\* handleSurpriseMe, up to its await.
handleSurpriseMe ==
    /\ mounted
    /\ ~ControlsDisabled
    /\ searchQuery' = Str(<<>>)
    /\ locationSearch' = SyncUrl(Str(<<>>), cuisine, mealType)
    /\ isLoading' = TRUE
    /\ error' = Null
    /\ recipe' = Null
    /\ imageUrl' = Null
    /\ generateNigerianRecipe(cuisine, mealType, Str(<<>>))
    /\ unmountCard
    /\ UNCHANGED <<mounted, storeVars, lastOp, cuisine, mealType, hostVars>>

\* The handler after its await, also putting the new image on the saved
\* entries of the same name.
ResolveRefreshesSaved(r, url, image) ==
    /\ recipe' = r
    /\ imageUrl' = url
    /\ isLoading' = FALSE
    /\ pc' = "idle"
    /\ genRecipe' = Null
    /\ result' = Resolved(r, url, image)
    /\ textCall' = NoCall
    /\ imageCall' = NoCall
    /\ active' = active - 1
    /\ savedRecipes' =
           IF IsArray(savedRecipes)
           THEN Arr([i \in 1..Len(savedRecipes.a) |->
                        IF GetProp(savedRecipes.a[i], "recipeName") = GetProp(r, "recipeName")
                        THEN Obj([savedRecipes.a[i].f EXCEPT !.imageUrl = url])
                        ELSE savedRecipes.a[i]])
           ELSE savedRecipes
    /\ UNCHANGED <<storage, error, issued>>

\* The handler after its await without its finally: isLoading stays as it is.
ResolveNoFinally(r, url, image) ==
    /\ recipe' = r
    /\ imageUrl' = url
    /\ pc' = "idle"
    /\ genRecipe' = Null
    /\ result' = Resolved(r, url, image)
    /\ textCall' = NoCall
    /\ imageCall' = NoCall
    /\ active' = active - 1
    /\ UNCHANGED <<storeVars, error, isLoading, issued>>

\* generateNigerianRecipe resolves, and the handler goes on after its await.
Resolve(r, url, image) ==
    /\ recipe' = r
    /\ imageUrl' = url
    /\ error' = error
    /\ isLoading' = FALSE
    /\ pc' = "idle"
    /\ genRecipe' = Null
    /\ result' = Resolved(r, url, image)
    /\ textCall' = NoCall
    /\ imageCall' = NoCall
    /\ active' = active - 1
    /\ UNCHANGED <<storeVars, issued>>

\* The handler's catch without its finally: isLoading stays as it is.
RejectNoFinally(message, image) ==
    /\ error' = Str(message)
    /\ pc' = "idle"
    /\ genRecipe' = Null
    /\ result' = Rejected(message, image)
    /\ textCall' = NoCall
    /\ imageCall' = NoCall
    /\ active' = active - 1
    /\ UNCHANGED <<storeVars, recipe, imageUrl, isLoading, issued>>

\* generateNigerianRecipe rejects with Error(message), and the handler's
\* catch and finally run.
Reject(message, image) ==
    /\ error' = Str(message)
    /\ isLoading' = FALSE
    /\ pc' = "idle"
    /\ genRecipe' = Null
    /\ result' = Rejected(message, image)
    /\ textCall' = NoCall
    /\ imageCall' = NoCall
    /\ active' = active - 1
    /\ UNCHANGED <<storeVars, recipe, imageUrl, issued>>

\* ai.models.generateContent answers with recipeText.
TextServiceReturns(recipeText) ==
    LET parsed == ParseRecipe(recipeText)
    IN  /\ pc = "text"
        /\ IF parsed.ok
           THEN /\ pc' = "image"
                /\ genRecipe' = parsed.recipe
                /\ textCall' = NoCall
                /\ imageCall' = Call(ImagePrompt(parsed.recipe))
                /\ issued' = [issued EXCEPT !.image = @ + 1]
                /\ UNCHANGED <<storeVars, uiVars, result, active>>
           ELSE Reject(Rejection(RuntimeError(parsed.err)), "none")
        /\ UNCHANGED <<mounted, lastOp, inputVars, hostVars, labelVars>>

\* ai.models.generateContent throws e and the request is sent again.
TextServiceThrowsRetry(e) ==
    /\ pc = "text"
    /\ issued' = [issued EXCEPT !.text = @ + 1]
    /\ UNCHANGED <<mounted, storeVars, lastOp, uiVars, inputVars, pc, genRecipe, result,
                   textCall, imageCall, active, hostVars, labelVars>>

\* ai.models.generateContent throws e.
TextServiceThrows(e) ==
    /\ pc = "text"
    /\ Reject(Rejection(e), "none")
    /\ UNCHANGED <<mounted, lastOp, inputVars, hostVars, labelVars>>

\* The image call has failed inside the inner try: the catch block runs.
Fallback(image) ==
    LET fb == FallbackImage(genRecipe)
    IN  IF fb.ok
        THEN Resolve(genRecipe, fb.url, image)
        ELSE Reject(Rejection(RuntimeError(fb.err)), image)

\* ai.models.generateImages answers with generatedImages.
ImageServiceReturns(generatedImages) ==
    LET img == ImageFromResponse(generatedImages)
    IN  /\ pc = "image"
        /\ IF img.ok THEN Resolve(genRecipe, img.url, "returned") ELSE Fallback("empty")
        /\ UNCHANGED <<mounted, lastOp, inputVars, hostVars, labelVars>>

\* ai.models.generateImages throws.
ImageServiceThrows ==
    /\ pc = "image"
    /\ Fallback("threw")
    /\ UNCHANGED <<mounted, lastOp, inputVars, hostVars, labelVars>>

Next ==
    \/ Load
    \/ \E in \in SaveInputs : handleSaveRecipe(in[1], in[2]) /\ Unrecorded
    \/ \E name \in DeleteInputs : handleDeleteRecipe(name) /\ Unrecorded
    \/ \E q \in SearchInputs : setSearchQuery(q)
    \/ handleGenerateRecipe
    \/ handleSurpriseMe
    \/ \E recipeText \in TextResponses : TextServiceReturns(recipeText)
    \/ \E e \in TextErrors : TextServiceThrows(e)
    \/ \E generatedImages \in ImageResponses : ImageServiceReturns(generatedImages)
    \/ ImageServiceThrows

Spec == Init /\ [][Next]_vars

SpecForeign == InitForeign /\ [][Next]_vars

(***************************************************************************)
(* The request flow on its own: the inputs, the shareable URL and the two  *)
(* services, with the saved collection left alone.                         *)
(***************************************************************************)
\* A name whose last code unit is a high surrogate with no low surrogate
\* after it.
HalfPair == Str(<<83, 55356>>)

\* One code point outside the basic plane, U+1F35B, as its surrogate pair.
CurryEmoji == Str(<<55356, 57179>>)

\* What the search box is set to in the request flow.
RequestQueries == {Str(<<>>), Suya, JollofRice, HalfPair, CurryEmoji}

\* The query strings a page is opened with.
SharedUrls ==
    { <<>>,
      \* ?q=Jollof%20Rice&cuisine=Yoruba&meal=Dinner
      <<63, 113, 61, 74, 111, 108, 108, 111, 102, 37, 50, 48, 82, 105, 99, 101,
        38, 99, 117, 105, 115, 105, 110, 101, 61, 89, 111, 114, 117, 98, 97, 38,
        109, 101, 97, 108, 61, 68, 105, 110, 110, 101, 114>>,
      \* ?cuisine=Any&meal=
      <<63, 99, 117, 105, 115, 105, 110, 101, 61, 65, 110, 121, 38, 109, 101, 97,
        108, 61>>,
      \* ?q=%F0%9F%8D%9B&cuisine=Efik%2FIbibio
      <<63, 113, 61, 37, 70, 48, 37, 57, 70, 37, 56, 68, 37, 57, 66, 38, 99, 117,
        105, 115, 105, 110, 101, 61, 69, 102, 105, 107, 37, 50, 70, 73, 98, 105,
        98, 105, 111>>,
      \* ?cuisine=Fusion&q=Suya&q=Moi+Moi
      <<63, 99, 117, 105, 115, 105, 110, 101, 61, 70, 117, 115, 105, 111, 110,
        38, 113, 61, 83, 117, 121, 97, 38, 113, 61, 77, 111, 105, 43, 77, 111,
        105>> }

InitRequest == Configured /\ \E search \in SharedUrls : Mount(NoItem, search)

NextRequest ==
    \/ \E search \in {locationSearch} \cup SharedUrls : LoadPage(search)
    \/ \E q \in RequestQueries : setSearchQuery(q)
    \/ \E c \in cuisineOptions : setCuisine(c)
    \/ \E m \in mealTypeOptions : setMealType(m)
    \/ handleGenerateRecipe
    \/ handleSurpriseMe
    \/ \E recipeText \in TextResponses : TextServiceReturns(recipeText)
    \/ \E e \in TextErrors : TextServiceThrows(e)
    \/ \E generatedImages \in ImageResponses : ImageServiceReturns(generatedImages)
    \/ ImageServiceThrows

SpecRequest == InitRequest /\ [][NextRequest]_vars

\* Each call of a service returns or throws in the end. The answers that
\* need no fallback URL come first: they are the cheapest to find enabled.
FairServices ==
    /\ WF_vars(\/ \E e \in TextErrors : TextServiceThrows(e)
               \/ \E recipeText \in TextResponses : TextServiceReturns(recipeText))
    /\ WF_vars(\/ \E generatedImages \in ImageResponses \ {<<>>} :
                      ImageServiceReturns(generatedImages)
               \/ ImageServiceReturns(<<>>)
               \/ ImageServiceThrows)

SpecRequestFair == SpecRequest /\ FairServices

(***************************************************************************)
(* The request flow in a build with or without a credential.               *)
(***************************************************************************)
InitStartup == apiKey \in ApiKeys /\ \E search \in SharedUrls : Mount(NoItem, search)

NextStartup ==
    \/ \E search \in {locationSearch} \cup SharedUrls : LoadPage(search)
    \/ \E search \in {locationSearch} \cup SharedUrls : StartupFails(search)
    \/ \E q \in RequestQueries : setSearchQuery(q)
    \/ \E c \in cuisineOptions : setCuisine(c)
    \/ \E m \in mealTypeOptions : setMealType(m)
    \/ handleGenerateRecipe
    \/ handleSurpriseMe
    \/ \E recipeText \in TextResponses : TextServiceReturns(recipeText)
    \/ \E e \in TextErrors : TextServiceThrows(e)
    \/ \E generatedImages \in ImageResponses : ImageServiceReturns(generatedImages)
    \/ ImageServiceThrows

SpecStartup == InitStartup /\ [][NextStartup]_vars

(***************************************************************************)
(* The fallback on its own: the names the text service answers with, each  *)
(* followed by a failure of the image service.                             *)
(***************************************************************************)
\* The code units the names are made of: "A", "z" and U+FFFF.
HashAlphabet == {65, 122, 65535}

\* The length of the longest name made of them.
MaxNameLen == 5

\* "GydZG_", whose hash is -2^31.
HashWords == { <<71, 121, 100, 90, 71, 95>> }

HashNames == HashWords \cup UNION {[1..k -> HashAlphabet] : k \in 1..MaxNameLen}

\* What recipeResponse.text holds: a recipe of each of the names.
HashTexts ==
    { Stringify(Recipe(Str(n), <<104, 111, 116>>, <<98, 101, 101, 102>>,
                       <<103, 114, 105, 108, 108>>)) : n \in HashNames }

NextHash ==
    \/ Load
    \/ handleGenerateRecipe
    \/ \E recipeText \in HashTexts : TextServiceReturns(recipeText)
    \/ ImageServiceThrows

SpecHash == Init /\ [][NextHash]_vars

(***************************************************************************)
(* Sessions: recipes are requested, the recipe on show is saved, and the   *)
(* page is loaded again.                                                   *)
(***************************************************************************)
\* What recipeResponse.text holds: two recipes named "Suya" that differ in
\* their description, and "Moi Moi".
SessionTexts == {Stringify(SuyaRecipe), Stringify(SuyaMild), Stringify(MoiMoiRecipe)}

\* The Save button of the recipe on show, there when the request is over
\* without an error.
saveShownRecipe ==
    /\ ~isLoading
    /\ ~Truthy(error)
    /\ Truthy(recipe)
    /\ handleSaveRecipe(recipe, imageUrl)
    /\ Unrecorded

NextSessions ==
    \/ Load
    \/ saveShownRecipe
    \/ \E name \in DeleteInputs : handleDeleteRecipe(name) /\ Unrecorded
    \/ handleGenerateRecipe
    \/ \E recipeText \in SessionTexts : TextServiceReturns(recipeText)
    \/ \E generatedImages \in ImageResponses : ImageServiceReturns(generatedImages)
    \/ ImageServiceThrows

SpecSessions == Init /\ [][NextSessions]_vars

(***************************************************************************)
(* generateNigerianRecipe called on its own, with any arguments.           *)
(***************************************************************************)
\* The cuisine and meal arguments: the options, '' and undefined.
CuisineArgs == cuisineOptions \cup {Str(<<>>), Undef}

MealArgs == mealTypeOptions \cup {Str(<<>>), Undef}

\* The search arguments: '', 'Suya', 'Jollof Rice', ' '.
QueryArgs == {Str(<<>>), Suya, JollofRice, Str(<<32>>)}

\* A call of generateNigerianRecipe(c, m, q) while none is outstanding.
callGenerate(c, m, q) ==
    /\ pc = "idle"
    /\ generateNigerianRecipe(c, m, q)
    /\ UNCHANGED <<mounted, storeVars, lastOp, uiVars, inputVars, hostVars, labelVars>>

NextPrompt == \E c \in CuisineArgs, m \in MealArgs, q \in QueryArgs : callGenerate(c, m, q)

SpecPrompt == Init /\ [][NextPrompt]_vars

(***************************************************************************)
(* The buttons that copy and share: handleCopyLink, handleCopy of the card *)
(* in the result area, and handleShare of RecipeCard, each with the        *)
(* promise it awaits and the timers that set its label back.               *)
(***************************************************************************)
\* How many calls and timers of one button the model lets be outstanding.
MaxPending == 2

\* The calls and timers of button b that are outstanding.
Pending(b) == writes[b] + timers[b] + (IF b = "share" THEN sharing ELSE 0)

\* setLinkCopyText(text), setCopyText(text) or setShareText(text).
setLabel(b, text) ==
    /\ linkCopyText' = IF b = "link" THEN text ELSE linkCopyText
    /\ copyText' = IF b = "copy" THEN text ELSE copyText
    /\ shareText' = IF b = "share" THEN text ELSE shareText

\* What no button touches.
appVars == <<storage, mounted, savedRecipes, lastOp, uiVars, inputVars, genVars, hostVars>>

\* The result area renders the card of recipe.
cardShown == ~isLoading /\ ~Truthy(error) /\ Truthy(recipe)

\* handleCopyLink up to its await. The button is disabled while isLoading.
handleCopyLink ==
    /\ mounted
    /\ ~ControlsDisabled
    /\ Pending("link") < MaxPending
    /\ writes' = [writes EXCEPT !["link"] = @ + 1]
    /\ UNCHANGED <<appVars, linkCopyText, copyText, shareText, sharing, timers>>

\* handleCopy of RecipeResultCard up to its await. The text is put together
\* before the try: a recipe without its ingredients or instructions array
\* makes the handler throw with nothing set.
handleCopy ==
    /\ mounted
    /\ cardShown
    /\ Pending("copy") < MaxPending
    /\ IF IsArray(GetProp(recipe, "ingredients")) /\ IsArray(GetProp(recipe, "instructions"))
       THEN writes' = [writes EXCEPT !["copy"] = @ + 1]
       ELSE UNCHANGED writes
    /\ UNCHANGED <<appVars, linkCopyText, copyText, shareText, sharing, timers>>

\* handleShare of RecipeCard up to its await: navigator.share where the
\* browser has it, navigator.clipboard.writeText where not.
handleShare(canShare) ==
    /\ mounted
    /\ cardShown
    /\ Truthy(imageUrl)
    /\ Pending("share") < MaxPending
    /\ IF canShare
       THEN sharing' = sharing + 1 /\ UNCHANGED writes
       ELSE writes' = [writes EXCEPT !["share"] = @ + 1] /\ UNCHANGED sharing
    /\ UNCHANGED <<appVars, linkCopyText, copyText, shareText, timers>>

\* writeText resolves: the label says so, and a timer is set.
WriteResolves(b) ==
    /\ writes[b] > 0
    /\ writes' = [writes EXCEPT ![b] = @ - 1]
    /\ setLabel(b, CopiedLabel(b))
    /\ timers' = [timers EXCEPT ![b] = @ + 1]
    /\ UNCHANGED <<appVars, sharing>>

\* The catch block with no timer set.
WriteRejectsNoTimer(b) ==
    /\ writes[b] > 0
    /\ writes' = [writes EXCEPT ![b] = @ - 1]
    /\ setLabel(b, ErrorLabel(b))
    /\ UNCHANGED <<appVars, sharing, timers>>

\* writeText rejects, or navigator.clipboard is not there: the catch block.
WriteRejects(b) ==
    /\ writes[b] > 0
    /\ writes' = [writes EXCEPT ![b] = @ - 1]
    /\ setLabel(b, ErrorLabel(b))
    /\ timers' = [timers EXCEPT ![b] = @ + 1]
    /\ UNCHANGED <<appVars, sharing>>

\* navigator.share resolves: nothing is set.
ShareResolves ==
    /\ sharing > 0
    /\ sharing' = sharing - 1
    /\ UNCHANGED <<appVars, linkCopyText, copyText, shareText, writes, timers>>

\* navigator.share rejects: the catch block.
ShareRejects ==
    /\ sharing > 0
    /\ sharing' = sharing - 1
    /\ setLabel("share", ErrorLabel("share"))
    /\ timers' = [timers EXCEPT !["share"] = @ + 1]
    /\ UNCHANGED <<appVars, writes>>

\* A setTimeout callback of button b runs, 2000 ms after it was set.
TimerFires(b) ==
    /\ timers[b] > 0
    /\ timers' = [timers EXCEPT ![b] = @ - 1]
    /\ setLabel(b, DefaultLabel(b))
    /\ UNCHANGED <<appVars, writes, sharing>>

\* A step of one of the buttons.
ButtonStep ==
    \/ handleCopyLink
    \/ handleCopy
    \/ \E canShare \in BOOLEAN : handleShare(canShare)
    \/ \E b \in Buttons : WriteResolves(b) \/ WriteRejects(b) \/ TimerFires(b)
    \/ ShareResolves
    \/ ShareRejects

\* What recipeResponse.text holds: "Suya" in full, and "Suya" with its name
\* alone.
ButtonTexts == {Stringify(SuyaRecipe), Stringify(Obj([recipeName |-> Suya]))}

\* What the text service throws: an Error with the message "429".
ButtonErrors == {[isError |-> TRUE, message |-> <<52, 50, 57>>]}

NextButtons ==
    \/ Load
    \/ handleGenerateRecipe
    \/ \E recipeText \in ButtonTexts : TextServiceReturns(recipeText)
    \/ \E e \in ButtonErrors : TextServiceThrows(e)
    \/ ImageServiceThrows
    \/ handleCopyLink
    \/ handleCopy
    \/ \E canShare \in BOOLEAN : handleShare(canShare)
    \/ \E b \in Buttons : WriteResolves(b)
    \/ \E b \in Buttons : WriteRejects(b)
    \/ ShareResolves
    \/ ShareRejects
    \/ \E b \in Buttons : TimerFires(b)

\* Every timer that is set runs, and every promise a button awaits settles.
FairButtons ==
    /\ \A b \in Buttons : WF_vars(TimerFires(b))
    /\ \A b \in Buttons : WF_vars(WriteResolves(b) \/ WriteRejects(b))
    /\ WF_vars(ShareResolves \/ ShareRejects)

SpecButtons == Init /\ [][NextButtons]_vars /\ FairButtons

(***************************************************************************)
(* Two browser sessions on the one slot: each has its own component, both  *)
(* read and write localStorage 'palmPotRecipes' of the origin.             *)
(***************************************************************************)
\* The state of the component of the session in the foreground.
ThisSession ==
    [ mounted |-> mounted, savedRecipes |-> savedRecipes, recipe |-> recipe,
      imageUrl |-> imageUrl, isLoading |-> isLoading, error |-> error,
      searchQuery |-> searchQuery, cuisine |-> cuisine, mealType |-> mealType,
      locationSearch |-> locationSearch, pc |-> pc, genRecipe |-> genRecipe,
      result |-> result, textCall |-> textCall, imageCall |-> imageCall,
      issued |-> issued, active |-> active, linkCopyText |-> linkCopyText,
      copyText |-> copyText, shareText |-> shareText, writes |-> writes,
      sharing |-> sharing, timers |-> timers ]

\* The user turns to the other session: what the handlers run on from now on
\* is its component. The slot belongs to both.
switchSession ==
    /\ other' = ThisSession
    /\ mounted' = other.mounted
    /\ savedRecipes' = other.savedRecipes
    /\ recipe' = other.recipe
    /\ imageUrl' = other.imageUrl
    /\ isLoading' = other.isLoading
    /\ error' = other.error
    /\ searchQuery' = other.searchQuery
    /\ cuisine' = other.cuisine
    /\ mealType' = other.mealType
    /\ locationSearch' = other.locationSearch
    /\ pc' = other.pc
    /\ genRecipe' = other.genRecipe
    /\ result' = other.result
    /\ textCall' = other.textCall
    /\ imageCall' = other.imageCall
    /\ issued' = other.issued
    /\ active' = other.active
    /\ linkCopyText' = other.linkCopyText
    /\ copyText' = other.copyText
    /\ shareText' = other.shareText
    /\ writes' = other.writes
    /\ sharing' = other.sharing
    /\ timers' = other.timers
    /\ UNCHANGED <<storage, lastOp, apiKey, kept>>

\* What the two sessions save: "Suya" and "suya", which fit into the slot
\* together.
SessionSaves == {<<SuyaRecipe, DataUrl(ImageBytes)>>, <<SuyaLowerRecipe, DataUrl(ImageBytes)>>}

\* The names the two sessions delete.
SessionDeletes == {Suya, SuyaLower}

NextTwoSessions ==
    \/ Load
    \/ switchSession
    \/ \E in \in SessionSaves : handleSaveRecipe(in[1], in[2]) /\ Recorded
    \/ \E name \in SessionDeletes : handleDeleteRecipe(name) /\ Recorded

SpecTwoSessions == Init /\ [][NextTwoSessions]_vars

\* One session alone, with the history of the slot recorded.
NextOneSession ==
    \/ Load
    \/ \E in \in SaveInputs : handleSaveRecipe(in[1], in[2]) /\ Recorded
    \/ \E name \in DeleteInputs : handleDeleteRecipe(name) /\ Recorded

SpecOneSession == Init /\ [][NextOneSession]_vars

(***************************************************************************)
(* The original App component: its load effect and its handlers, as        *)
(* functions of its state and of the slot.                                 *)
(***************************************************************************)
\* The state of App after its useState calls, with the slot as it is.
AppInitial(slot) ==
    [ savedRecipes |-> Arr(<<>>), storage |-> slot, recipe |-> Null, imageUrl |-> Null,
      error |-> Null, isLoading |-> FALSE ]

\* A page load of App: the initial state, then the load effect. getItem
\* gives null or a text; the text is parsed when it is truthy, and an
\* exception of JSON.parse is caught and logged.
AppMount(slot) ==
    LET saved == GetItem(slot)
    IN  IF saved.isNull THEN AppInitial(slot)
        ELSE IF saved.text = <<>> THEN AppInitial(slot)
        ELSE IF JSONParse(saved.text).ok
             THEN [AppInitial(slot) EXCEPT !.savedRecipes = JSONParse(saved.text).v]
             ELSE AppInitial(slot)

\* setSavedRecipes(updatedRecipes) and then localStorage.setItem, which keeps
\* the slot as it was when it throws.
AppStore(app, updatedRecipes) ==
    [app EXCEPT !.savedRecipes = updatedRecipes,
                !.storage = SetItem(app.storage, updatedRecipes).slot]

\* handleSaveRecipe of App: the guard on the arguments, the new entry, the
\* test for an entry of the new entry's name, the append.
AppHandleSaveRecipe(app, recipeToSave, imageUrlToSave) ==
    IF ~Truthy(recipeToSave) THEN app
    ELSE IF ~Truthy(imageUrlToSave) THEN app
    ELSE LET newSavedRecipe == NewSavedRecipe(recipeToSave, imageUrlToSave)
         IN  IF ~IsArray(app.savedRecipes) THEN app
             ELSE IF SomeSameName(app.savedRecipes.a, 1, GetProp(newSavedRecipe, "recipeName"))
                        \in {"true", "throw"}
             THEN app
             ELSE AppStore(app, Arr(app.savedRecipes.a \o <<newSavedRecipe>>))

\* handleDeleteRecipe of App: the filter throws when savedRecipes is no
\* array or holds a null.
AppHandleDeleteRecipe(app, recipeName) ==
    IF ~IsArray(app.savedRecipes) THEN app
    ELSE IF \E i \in 1..Len(app.savedRecipes.a) : PropThrows(app.savedRecipes.a[i]) THEN app
    ELSE AppStore(app, Arr(SelectSeq(app.savedRecipes.a,
                                     LAMBDA r : ~StrictEq(GetProp(r, "recipeName"), recipeName))))

\* handleGenerateRecipe of App up to its await.
AppHandleGenerateRecipe(app) ==
    [app EXCEPT !.isLoading = TRUE, !.error = Null, !.recipe = Null, !.imageUrl = Null]

\* handleGenerateRecipe of App after its await, for a call that settled as
\* settled says: the try, the catch on an Error, the finally.
AppAfterAwait(app, settled) ==
    IF settled.st = "resolved"
    THEN [app EXCEPT !.recipe = settled.recipe, !.imageUrl = settled.imageUrl,
                     !.isLoading = FALSE]
    ELSE [app EXCEPT !.error = Str(settled.message), !.isLoading = FALSE]

(***************************************************************************)
(* Properties of the saved collection                                      *)
(***************************************************************************)
\* The collection holds an entry named name: the same code units, in the
\* same case.
HasName(v, name) == \E i \in 1..Len(v.a) : GetProp(v.a[i], "recipeName") = name

\* No two entries of the collection have the same name.
UniqueNames(v) ==
    \A i, j \in 1..Len(v.a) :
        GetProp(v.a[i], "recipeName") = GetProp(v.a[j], "recipeName") => i = j

\* The recipe r extended with imageUrl = url.
WithImage(r, url) ==
    Obj([recipeName |-> r.f.recipeName, description |-> r.f.description,
         ingredients |-> r.f.ingredients, instructions |-> r.f.instructions,
         imageUrl |-> url])

\* How many entries of the collection are equal to e.
Count(v, e) == Cardinality({i \in 1..Len(v.a) : v.a[i] = e})

\* The entries of a that are not named name, in their order.
Others(a, name) == SelectSeq(a, LAMBDA r : GetProp(r, "recipeName") # name)

\* C1: starting from an empty or absent slot, after any sequence of loads,
\* saves and deletes neither the in-memory list nor the list held in the slot
\* has two entries with the same recipe name (exact, case-sensitive match).
C1_UniqueNames == UniqueNames(savedRecipes) /\ UniqueNames(LoadSaved(storage))

\* Three recipes are in memory and two of them, "Suya" and "suya", in the
\* slot, and a save of a name already saved has just been refused.
C1_Witness ==
    /\ lastOp.op = "save"
    /\ lastOp.did = "return"
    /\ Truthy(lastOp.recipe)
    /\ Truthy(lastOp.url)
    /\ Len(savedRecipes.a) = 3
    /\ Len(LoadSaved(storage).a) = 2
    /\ HasName(LoadSaved(storage), Suya)
    /\ HasName(LoadSaved(storage), SuyaLower)

\* C2: after every save that adds an entry and after every delete, the slot
\* holds the serialization of exactly the in-memory collection, also when the
\* write to the slot has failed.
C2_WriteThrough ==
    ((lastOp.op = "save" /\ lastOp.did = "append") \/ lastOp.op = "delete")
        => storage = Item(Stringify(savedRecipes))

\* C3: a save of a recipe r whose name is not yet saved, with the image
\* reference url, followed by a load in a fresh session, yields a collection
\* with exactly one entry equal to r extended with imageUrl = url.
C3_RoundTrip ==
    [][(lastOp.op = "save" /\ lastOp.did = "append" /\ Load)
           => Count(savedRecipes', WithImage(lastOp.recipe, lastOp.url)) = 1]_vars

\* C4: a save of a recipe whose name an entry of the collection already has
\* changes neither the in-memory collection nor the slot, whatever its
\* description, ingredients and image reference are, so that any number of
\* saves of one name leaves the collection as large as the first of them did.
C4_SameNameIsNoOp ==
    [][\A in \in SaveInputs :
           (handleSaveRecipe(in[1], in[2])
            /\ HasName(savedRecipes, GetProp(in[1], "recipeName")))
               => UNCHANGED <<savedRecipes, storage>>]_vars

\* A save has just been refused for its name, and the saved entry of that
\* name has another description and another image reference.
C4_Witness ==
    /\ lastOp.op = "save"
    /\ lastOp.did = "return"
    /\ Truthy(lastOp.recipe)
    /\ Truthy(lastOp.url)
    /\ \E i \in 1..Len(savedRecipes.a) :
          /\ savedRecipes.a[i].f.recipeName = lastOp.recipe.f.recipeName
          /\ savedRecipes.a[i].f.description # lastOp.recipe.f.description
          /\ savedRecipes.a[i].f.imageUrl # lastOp.url

\* C5: a save of a recipe whose name is not in the collection, with any
\* image reference, appends exactly one entry, the recipe with that image
\* reference, at the end, leaves the entries before it and their order as they
\* were, and writes the whole updated collection to the slot.
C5_SaveAppends ==
    [][\A in \in SaveInputs :
           (handleSaveRecipe(in[1], in[2])
            /\ Truthy(in[1])
            /\ Truthy(in[2])
            /\ ~HasName(savedRecipes, GetProp(in[1], "recipeName")))
               => /\ savedRecipes' = Arr(Append(savedRecipes.a, WithImage(in[1], in[2])))
                  /\ storage' = Item(Stringify(savedRecipes'))]_vars

\* C6: a delete removes every entry of the given name and keeps the others in
\* their order, and a load that follows a delete never returns an entry of the
\* deleted name.
C6_DeleteThenLoad ==
    [][/\ \A name \in DeleteInputs :
             handleDeleteRecipe(name) => savedRecipes' = Arr(Others(savedRecipes.a, name))
       /\ (lastOp.op = "delete" /\ Load) => ~HasName(savedRecipes', lastOp.name)]_vars

\* C7: a delete of a name that is not in the collection leaves the in-memory
\* list with the same entries in the same order, and a load after it returns
\* what a load before it returned.
C7_DeleteAbsentName ==
    [][\A name \in DeleteInputs :
           (handleDeleteRecipe(name) /\ ~HasName(savedRecipes, name))
               => /\ savedRecipes' = savedRecipes
                  /\ LoadSaved(storage') = LoadSaved(storage)]_vars

\* A delete that removed nothing has just rewritten a slot holding two
\* recipes.
C7_Witness ==
    /\ lastOp.op = "delete"
    /\ lastOp.did = "filter"
    /\ lastOp.removed = 0
    /\ lastOp.threw = "none"
    /\ Len(savedRecipes.a) = 2
    /\ storage = Item(Stringify(savedRecipes))

\* The fields of a SavedRecipe.
SavedFields == {"recipeName", "description", "ingredients", "instructions", "imageUrl"}

\* A sequence of saved recipes.
IsSavedCollection(v) ==
    /\ IsArray(v)
    /\ \A i \in 1..Len(v.a) : v.a[i].k = "object" /\ SavedFields \subseteq DOMAIN v.a[i].f

\* The slot holds the serialization of a sequence of saved recipes.
WellFormedSlot(slot) ==
    /\ slot.present
    /\ JSONParse(slot.text).ok
    /\ IsSavedCollection(JSONParse(slot.text).v)

\* C8: a load never fails and always yields a sequence of saved recipes, the
\* empty one when the slot is missing or holds anything but a well-formed
\* serialized collection, and saves and deletes work after it.
C8_LoadYieldsCollection ==
    /\ mounted => IsSavedCollection(savedRecipes)
    /\ (lastOp.op = "load" /\ ~WellFormedSlot(storage)) => savedRecipes = Arr(<<>>)
    /\ lastOp.op \in {"save", "delete"} => lastOp.did # "throw"

(***************************************************************************)
(* Properties of generateNigerianRecipe                                    *)
(***************************************************************************)
\* The fields the schema requires of a Recipe.
RequiredFields == {"recipeName", "description", "ingredients", "instructions"}

\* A Recipe with every required field.
IsRecipe(v) == v.k = "object" /\ RequiredFields \subseteq DOMAIN v.f

\* C9: generate rejects when the answer of the text service does not parse or
\* lacks one of recipeName, description, ingredients and instructions: it
\* never resolves with a Recipe that lacks a required field.
C9_ResolvesWithRecipe == result.st = "resolved" => IsRecipe(result.recipe)

\* The decimal digits of a non-negative integer.
IsDigits(s) == Len(s) > 0 /\ \A i \in 1..Len(s) : s[i] \in 48..57

\* s[i..] begins with t.
HasAt(s, i, t) == i + Len(t) - 1 <= Len(s) /\ SubSeq(s, i, i + Len(t) - 1) = t

\* url carries the URL-encoded name and ends with "&sig=" and a non-negative
\* integer.
IsFallbackUrl(url, name) ==
    /\ IsString(url)
    /\ EncodeURIComponent(name.s).ok
    /\ \E i \in 1..Len(url.s) : HasAt(url.s, i, EncodeURIComponent(name.s).s)
    /\ \E i \in 1..Len(url.s) :
          HasAt(url.s, i, SigParam) /\ IsDigits(SubSeq(url.s, i + Len(SigParam), Len(url.s)))

\* C10: when the text service has answered with a recipe and the image
\* service raises an error, generate resolves with that recipe and a fallback
\* URL that carries the URL-encoded recipe name and a non-negative integer
\* signature: the error of the image service is never surfaced.
C10_ImageErrorFallsBack ==
    [][(ImageServiceThrows /\ IsRecipe(genRecipe) /\ IsString(genRecipe.f.recipeName))
           => /\ result'.st = "resolved"
              /\ result'.recipe = genRecipe
              /\ IsFallbackUrl(result'.imageUrl, genRecipe.f.recipeName)]_vars

(***************************************************************************)
(* Properties of the request flow                                          *)
(***************************************************************************)
\* The text s holds the text t somewhere.
Contains(s, t) == \E i \in 1..(Len(s) + 1) : HasAt(s, i, t)

\* C11, as stated: whenever the text service throws, generate rejects with
\* an error whose message includes the detail of what was thrown, and the
\* image service is not called for that request.
C11_ThrowCarriesDetail ==
    [][\A e \in TextErrors :
           TextServiceThrows(e)
               => /\ result'.st = "rejected"
                  /\ Contains(result'.message, e.message)
                  /\ issued'.image = 0
                  /\ imageCall' = NoCall]_vars

\* C11, amended: when the text service throws an Error, generate rejects
\* with an error whose message includes the message of that Error; when it
\* throws a value that is no Error, generate rejects with the fixed message
\* "An unknown error occurred while generating the recipe."; in both cases
\* the image service is not called for that request.
C11_ErrorCarriesDetail ==
    [][\A e \in TextErrors :
           TextServiceThrows(e)
               => /\ result'.st = "rejected"
                  /\ error' = Str(result'.message)
                  /\ e.isError => Contains(result'.message, e.message)
                  /\ ~e.isError => result'.message = UnknownErrorMessage
                  /\ issued'.image = 0
                  /\ imageCall' = NoCall]_vars

\* The text service has thrown the Error "429" for a request with a dish
\* and both filters, and the call has been rejected with that detail
\* before any image request.
C11_Witness ==
    /\ result.st = "rejected"
    /\ result.message = FailedPrefix \o <<52, 50, 57>>
    /\ issued = [text |-> 1, image |-> 0]
    /\ searchQuery = JollofRice
    /\ cuisine = Yoruba
    /\ mealType = Dinner

\* C12: within one generate call the two requests are strictly sequential:
\* the image request is sent only in the step in which the text service
\* returns a text that parses, its prompt carries the recipe name of that
\* parsed text, and the two requests are never outstanding together.
C12_Sequential ==
    [][/\ ~(textCall'.out /\ imageCall'.out)
       /\ (imageCall'.out /\ imageCall' # imageCall)
             => /\ textCall.out
                /\ ~textCall'.out
                /\ \E recipeText \in TextResponses :
                      /\ TextServiceReturns(recipeText)
                      /\ JSONParse(recipeText).ok
                      /\ imageCall'.prompt =
                            ImageOpening
                            \o ToStr(GetProp(JSONParse(recipeText).v, "recipeName"))
                            \o ImageClosing]_vars

\* The text request has returned the "Moi Moi" recipe and the image request
\* for a plate of "Moi Moi" is the only outstanding one.
C12_Witness ==
    /\ imageCall.out
    /\ ~textCall.out
    /\ genRecipe = MoiMoiRecipe
    /\ Contains(imageCall.prompt, MoiMoi.s)
    /\ issued = [text |-> 1, image |-> 1]

\* C13: at most one generate call is outstanding at a time: while a request
\* is outstanding isLoading is true and every control that starts a generate
\* call is disabled, and no step of the Generate button, the Surprise-me
\* button or Enter in the search box starts a call while one is outstanding.
C13_OneRequestAtATime ==
    [][/\ active' \in {0, 1}
       /\ (textCall'.out \/ imageCall'.out) => (active' = 1 /\ isLoading' /\ ControlsDisabled')
       /\ (handleGenerateRecipe \/ handleSurpriseMe)
             => (active = 0 /\ ~textCall.out /\ ~imageCall.out)]_vars

\* A text request for "Suya" is outstanding, a "Try:" chip has since put
\* "Jollof Rice" into the search box, and the controls are disabled.
C13_Witness ==
    /\ active = 1
    /\ ControlsDisabled
    /\ textCall.out
    /\ Contains(textCall.prompt, Suya.s)
    /\ searchQuery = JollofRice

\* C14: no automatic retries: between two user actions at most one request
\* goes to the text service and at most one to the image service, whatever
\* either answers; a text request is sent only by a step of the Generate
\* button, the Surprise-me button or Enter, an image request only when the
\* text request of the same call returns, and none after the call settled.
C14_NoRetries ==
    [][/\ issued'.text <= 1
       /\ issued'.image <= 1
       /\ (issued' # issued /\ issued'.text > 0 /\ issued'.image = 0)
             => (handleGenerateRecipe \/ handleSurpriseMe)
       /\ (issued'.image > issued.image) => (textCall.out /\ issued'.text = issued.text)
       /\ result'.st # "none" => (~textCall'.out /\ ~imageCall'.out)]_vars

\* Both requests of one call have failed, the image request by a throw and
\* the fallback after it: one request went to each service.
C14_Witness ==
    /\ result.st = "rejected"
    /\ result.image = "threw"
    /\ issued = [text |-> 1, image |-> 1]
    /\ ~textCall.out
    /\ ~imageCall.out

\* C15: after a generate call has been rejected, and until the next user
\* action starts one, the error message is a non-empty text, there is no
\* recipe and no image, isLoading is false and the controls are enabled.
C15_ErrorSurfaced ==
    result.st = "rejected"
        => /\ IsString(error)
           /\ Len(error.s) > 0
           /\ error.s = result.message
           /\ recipe = Null
           /\ imageUrl = Null
           /\ ~isLoading
           /\ ~ControlsDisabled
           /\ active = 0

\* The answer of the text service to a request for the Efik/Ibibio cuisine
\* did not parse: the error is shown, with no recipe, and loading is over.
C15_Witness ==
    /\ result.st = "rejected"
    /\ error = Str(FailedPrefix \o RuntimeMessage("SyntaxError"))
    /\ recipe = Null
    /\ ~isLoading
    /\ cuisine = EfikIbibio

\* hash * 31 + charCode truncated to a 32-bit signed integer, by the
\* multiplication of the two halves of hash.
Rolling31(hash, charCode) ==
    LET u == Halves(hash)
        lo == (u.lo * 31) + charCode
        hi == (u.hi * 31) + (lo \div 65536)
    IN  Int32(hi % 65536, lo % 65536)

RECURSIVE RollingFrom(_, _, _)
\* The classic rolling hash of name from character i on, from hash.
RollingFrom(name, i, hash) ==
    IF i > Len(name) THEN hash ELSE RollingFrom(name, i + 1, Rolling31(hash, name[i]))

\* The decimal digits of the absolute value of a 32-bit h; for a negative h
\* it is m + 1 with m = -(h + 1).
AbsDigits(h) ==
    IF h >= 0 THEN Decimal(h)
    ELSE LET m == 0 - (h + 1)
         IN  IF m % 10 = 9 THEN Decimal((m \div 10) + 1) \o <<48>>
             ELSE IF m < 10 THEN <<49 + m>>
             ELSE Decimal(m \div 10) \o <<49 + (m % 10)>>

\* The text after "&sig=" in a fallback URL.
SigOf(u) ==
    LET i == CHOOSE j \in 1..Len(u.s) : HasAt(u.s, j, SigParam)
    IN  SubSeq(u.s, i + Len(SigParam), Len(u.s))

\* The last call resolved with the fallback image after the image service
\* threw.
FellBack == result.st = "resolved" /\ result.image = "threw"

\* C17: for every recipe name the signature of the fallback URL is the
\* absolute value of the classic rolling hash (hash * 31 + charCode,
\* truncated to 32 bits after each character, from 0); the shift-and-subtract
\* step agrees with hash * 31 + charCode at every accumulator on the way, and
\* the signature is a non-negative integer.
C17_SignatureIsRollingHash ==
    FellBack =>
        LET name == result.recipe.f.recipeName.s
        IN  /\ \A k \in 0..(Len(name) - 1) :
                  LET acc == RollingFrom(SubSeq(name, 1, k), 1, 0)
                  IN  /\ HashFrom(SubSeq(name, 1, k), 1, 0) = acc
                      /\ \A c \in HashAlphabet \cup {name[k + 1]} :
                            HashStep(acc, c) = Rolling31(acc, c)
            /\ SigOf(result.imageUrl) = AbsDigits(RollingFrom(name, 1, 0))
            /\ IsDigits(SigOf(result.imageUrl))

\* The fallback URL of "GydZG_", whose hash is -2^31: the signature is
\* 2147483648.
C17_Witness ==
    /\ FellBack
    /\ result.recipe.f.recipeName = Str(<<71, 121, 100, 90, 71, 95>>)
    /\ SigOf(result.imageUrl) = <<50, 49, 52, 55, 52, 56, 51, 54, 52, 56>>

\* The last call resolved with the fallback image, after the image service
\* threw or answered without an image.
ImageFailed == result.st = "resolved" /\ result.image \in {"threw", "empty"}

\* v is a reference to the stock-photo service.
IsFallbackRef(v) == IsString(v) /\ HasAt(v.s, 1, UnsplashPrefix)

\* The saved entries, in memory and in the slot, that carry the name and a
\* reference to the stock-photo service.
SavedFallbacks(name) ==
    { e \in {savedRecipes.a[i] : i \in 1..Len(savedRecipes.a)}
             \cup {LoadSaved(storage).a[i] : i \in 1..Len(LoadSaved(storage).a)} :
        GetProp(e, "recipeName") = name /\ IsFallbackRef(GetProp(e, "imageUrl")) }

\* C16: the fallback image reference is a function of the recipe name
\* alone: it is the reference the catch block builds for a recipe that has
\* nothing but that name, it is identical to the fallback reference of every
\* saved entry of that name, whatever call produced that one, in this
\* session or in an earlier one, and whatever else its recipe held, and its
\* signature is a non-negative integer.
C16_FallbackOfNameAlone ==
    ImageFailed =>
        LET name == GetProp(result.recipe, "recipeName")
        IN  /\ result.imageUrl = FallbackImage(Obj([recipeName |-> name])).url
            /\ \A e \in SavedFallbacks(name) : GetProp(e, "imageUrl") = result.imageUrl
            /\ IsDigits(SigOf(result.imageUrl))

\* In a session that has saved nothing, the image request for the "Suya"
\* recipe with the description "mild" has failed, and the slot holds the
\* "Suya" recipe with the description "hot" and its fallback reference from
\* an earlier session.
C16_Witness ==
    /\ ImageFailed
    /\ lastOp.op = "load"
    /\ result.recipe = SuyaMild
    /\ \E e \in SavedFallbacks(Suya) : GetProp(e, "description") = SuyaRecipe.f.description

\* "popular and delicious"
PopularAndDelicious ==
    <<112, 111, 112, 117, 108, 97, 114, 32, 97, 110, 100, 32, 100, 101, 108,
      105, 99, 105, 111, 117, 115>>

\* The words that introduce a dish: dish: "
DishMarker == <<100, 105, 115, 104, 58, 32, 34>>

\* The prompt asks for a popular and delicious dish and names none.
AsksPopular(prompt) == Contains(prompt, PopularAndDelicious) /\ ~Contains(prompt, DishMarker)

\* The prompt names the dish, once and in quotes, and no popular dish.
NamesDish(prompt, dish) ==
    /\ Contains(prompt, DishMarker \o dish \o <<34>>)
    /\ Cardinality({i \in 1..Len(prompt) : HasAt(prompt, i, DishMarker)}) = 1
    /\ ~Contains(prompt, PopularAndDelicious)

\* C18: a request with an empty search query, and every Surprise-me request
\* whatever the search box holds, sends a prompt that asks for a "popular
\* and delicious" dish and names no dish; a request with a non-empty search
\* query sends a prompt that names exactly that dish.
C18_PromptNamesTheDish ==
    [][/\ handleGenerateRecipe
             => IF searchQuery = Str(<<>>)
                THEN AsksPopular(textCall'.prompt)
                ELSE NamesDish(textCall'.prompt, searchQuery.s)
       /\ handleSurpriseMe => AsksPopular(textCall'.prompt)]_vars

\* A request for the Efik/Ibibio cuisine with an empty search box is
\* outstanding, and its prompt asks for a popular dish.
C18_Witness ==
    /\ textCall.out
    /\ searchQuery = Str(<<>>)
    /\ cuisine = EfikIbibio
    /\ AsksPopular(textCall.prompt)

\* "cuisine"
CuisineWord == <<99, 117, 105, 115, 105, 110, 101>>

\* "suitable"
SuitableWord == <<115, 117, 105, 116, 97, 98, 108, 101>>

\* " for "
ForWord == <<32, 102, 111, 114, 32>>

\* C19: the prompt of generate(c, m, q) holds the cuisine clause, with the
\* value c in it, exactly when c is set and is not "Any", and the meal
\* clause, with the value m in it, exactly when m is set and is not "Any";
\* generate("Yoruba", "Dinner", "") holds "Yoruba" and "Dinner" and names no
\* dish.
C19_FilterClauses ==
    [][\A c \in CuisineArgs, m \in MealArgs, q \in QueryArgs :
           callGenerate(c, m, q)
               => LET prompt == textCall'.prompt
                      cuisineSet == c \notin {Undef, Str(<<>>), Str(AnyOption)}
                      mealSet == m \notin {Undef, Str(<<>>), Str(AnyOption)}
                  IN  /\ Contains(prompt, CuisineWord) <=> cuisineSet
                      /\ cuisineSet => Contains(prompt, <<32>> \o c.s \o <<32>> \o CuisineWord)
                      /\ Contains(prompt, SuitableWord) <=> mealSet
                      /\ mealSet => Contains(prompt, SuitableWord \o ForWord \o m.s \o <<46>>)
                      /\ ~Contains(prompt, AnyOption)
                      /\ (c = Yoruba /\ m = Dinner /\ q = Str(<<>>))
                            => /\ Contains(prompt, Yoruba.s)
                               /\ Contains(prompt, Dinner.s)
                               /\ AsksPopular(prompt)]_vars

\* The request of generate("Yoruba", "Dinner", "") is outstanding.
C19_Witness ==
    /\ textCall.out
    /\ Contains(textCall.prompt, Yoruba.s)
    /\ Contains(textCall.prompt, Dinner.s)
    /\ AsksPopular(textCall.prompt)
    /\ issued = [text |-> 1, image |-> 0]

\* The names of the parameters of a query string, in their order.
ParamNames(search) == [i \in 1..Len(ParseSearch(search)) |-> ParseSearch(search)[i][1]]

\* The query string carries q, cuisine and meal exactly for the inputs that
\* are not at their default, each once, and nothing else.
CarriesNonDefaults ==
    LET names == ParamNames(locationSearch)
        Has(name) == \E i \in 1..Len(names) : names[i] = name
    IN  /\ Has(QName) <=> searchQuery # Str(<<>>)
        /\ Has(CuisineName) <=> cuisine # Str(AnyOption)
        /\ Has(MealName) <=> mealType # Str(AnyOption)
        /\ \A i \in 1..Len(names) : names[i] \in {QName, CuisineName, MealName}
        /\ \A i, j \in 1..Len(names) : names[i] = names[j] => i = j

\* No code unit of s is a surrogate without its other half.
WellFormed(s) ==
    \A i \in 1..Len(s) :
        /\ IsHighSurrogate(s[i]) => (i < Len(s) /\ IsLowSurrogate(s[i + 1]))
        /\ IsLowSurrogate(s[i]) => (i > 1 /\ IsHighSurrogate(s[i - 1]))

\* s with U+FFFD for every surrogate without its other half.
Scrubbed(s) ==
    [i \in 1..Len(s) |->
        IF \/ IsHighSurrogate(s[i]) /\ ~(i < Len(s) /\ IsLowSurrogate(s[i + 1]))
           \/ IsLowSurrogate(s[i]) /\ ~(i > 1 /\ IsHighSurrogate(s[i - 1]))
        THEN 65533 ELSE s[i]]

C21_FiltersAreOptions ==
    [][(handleGenerateRecipe \/ handleSurpriseMe)
           => cuisine \in cuisineOptions /\ mealType \in mealTypeOptions]_vars

\* The text of the slot holds the text of entry e.
InSlot(slot, e) == slot.present /\ Contains(slot.text, Stringify(e))

\* C22: an entry that save has written to the slot stays in the slot through
\* every later sequence of saves and deletes that does not delete its name,
\* also when the operations come from two browser sessions that each loaded
\* the slot at their own startup.
C22_SavedUntilDeleted == \A e \in kept : InSlot(storage, e)

\* The result area renders the card of recipe: the request is over, there
\* is no error, and recipe is truthy.
Displayed == ~isLoading /\ ~Truthy(error) /\ Truthy(recipe)

\* C23: starting a generate clears the recipe, the image and the error of
\* the request before, with the new request sent; and whenever a recipe is
\* displayed, the recipe and the image reference on show are the two that the
\* most recently completed generate call resolved with.
C23_ReplacedWholesale ==
    /\ [](Displayed => /\ result.st = "resolved"
                       /\ recipe = result.recipe
                       /\ imageUrl = result.imageUrl)
    /\ [][(handleGenerateRecipe \/ handleSurpriseMe)
             => /\ recipe' = Null
                /\ imageUrl' = Null
                /\ error' = Null
                /\ textCall'.out
                /\ result' = NoResult]_vars

\* A recipe is displayed with the stock image its own request fell back to,
\* and the search box has since been set to another dish.
C23_Witness ==
    /\ Displayed
    /\ result.st = "resolved"
    /\ result.image = "threw"
    /\ recipe = result.recipe
    /\ imageUrl = result.imageUrl
    /\ searchQuery = JollofRice
    /\ recipe.f.recipeName = Suya

\* The label of button b.
LabelOf(b) ==
    CASE b = "link" -> linkCopyText
      [] b = "copy" -> copyText
      [] b = "share" -> shareText

\* C24: a clipboard or share failure shows as a label only. Whatever copy and
\* share attempts are made, successful or failing, also while a timer of an
\* earlier attempt has not run, each label comes back to its default text,
\* and no step of a button changes the recipe, the image, the error, the
\* loading flag, the inputs, the saved collection or the slot.
C24_LabelsRevert ==
    /\ [][ButtonStep => UNCHANGED <<recipe, imageUrl, error, isLoading, searchQuery,
                                    cuisine, mealType, savedRecipes, storage>>]_vars
    /\ \A b \in Buttons : (LabelOf(b) # DefaultLabel(b)) ~> (LabelOf(b) = DefaultLabel(b))

\* The link could not be copied twice in a row, the second time before the
\* timer of the first had run, while a recipe is on show.
C24_Witness ==
    /\ linkCopyText = ErrorLabel("link")
    /\ timers["link"] = 2
    /\ cardShown
    /\ copyText = CopiedLabel("copy")

\* C25: a missing credential is fatal at startup. When process.env.API_KEY
\* is absent the service module fails while it loads: the component is never
\* rendered, and no request is ever sent to the text service or to the image
\* service.
C25_NoCallWithoutKey ==
    ~Truthy(apiKey) => /\ ~mounted
                       /\ pc = "idle"
                       /\ ~textCall.out
                       /\ ~imageCall.out
                       /\ issued = NoneIssued
                       /\ active = 0

\* The page was opened at a shared URL in a build whose API_KEY is the empty
\* string, and the startup failed.
C25_Witness ==
    /\ apiKey = Str(<<>>)
    /\ lastOp.op = "fatal"
    /\ locationSearch # <<>>
    /\ ~mounted

\* What of PalmPotAVD is compared with App.
View ==
    [ savedRecipes |-> savedRecipes, storage |-> storage, recipe |-> recipe,
      imageUrl |-> imageUrl, error |-> error, isLoading |-> isLoading ]

\* The outstanding generateNigerianRecipe call settles in this step.
Settles == pc # "idle" /\ pc' = "idle" /\ result'.st # "none"

\* C26: the redesigned component keeps the core logic. From equal states,
\* every load, save, delete and generate event takes PalmPotAVD to the state
\* that the handler of the original App takes App to (saved collection, slot,
\* recipe, imageUrl, error, isLoading), so the two agree after every sequence
\* of these events.
C26_SameAsApp ==
    [][/\ Load => View' = AppMount(storage)
       /\ \A in \in SaveInputs :
              handleSaveRecipe(in[1], in[2]) => View' = AppHandleSaveRecipe(View, in[1], in[2])
       /\ \A name \in DeleteInputs :
              handleDeleteRecipe(name) => View' = AppHandleDeleteRecipe(View, name)
       /\ handleGenerateRecipe => View' = AppHandleGenerateRecipe(View)
       /\ Settles => View' = AppAfterAwait(View, result')]_vars

\* A request has been rejected while the collection holds an entry that the
\* slot did not take.
C26_Witness ==
    /\ result.st = "rejected"
    /\ Truthy(error)
    /\ lastOp.op = "save"
    /\ lastOp.did = "append"
    /\ lastOp.threw = "QuotaExceededError"
    /\ Len(savedRecipes.a) = 2

\* C27: in every state of the UI, error and recipe are never both non-null,
\* recipe is non-null exactly when imageUrl is non-null, and while isLoading
\* is true recipe, imageUrl and error are all null.
C27_ResultState ==
    /\ ~(error # Null /\ recipe # Null)
    /\ (recipe # Null) <=> (imageUrl # Null)
    /\ isLoading => recipe = Null /\ imageUrl = Null /\ error = Null

\* A request for the cuisine Efik/Ibibio with the search box empty is waiting
\* for the image service: nothing is on show.
C27_Witness ==
    /\ isLoading
    /\ pc = "image"
    /\ issued = [text |-> 1, image |-> 1]
    /\ error = Null
    /\ recipe = Null
    /\ imageUrl = Null
    /\ searchQuery = Str(<<>>)
    /\ cuisine = EfikIbibio

\* A call of one of the two services is outstanding.
Outstanding == textCall.out \/ imageCall.out

\* C28: every generate request comes to an end on the side of the UI. When
\* each call of a service returns or throws in the end, isLoading is true
\* exactly while a request is outstanding, and after every request it is
\* false again, whether the request succeeded, failed at the text service or
\* fell back to the stock image: the controls do not stay disabled.
C28_RequestsEnd ==
    /\ [](isLoading <=> Outstanding)
    /\ [](isLoading <=> pc # "idle")
    /\ isLoading ~> (~isLoading /\ ~ControlsDisabled)

\* A request is over that fell back to the stock image because the image
\* service answered with no image, and the controls are enabled again.
C28_Witness ==
    /\ ~isLoading
    /\ ~ControlsDisabled
    /\ ~Outstanding
    /\ result.st = "resolved"
    /\ result.image = "empty"
    /\ IsFallbackRef(imageUrl)

\* A step of a generate or surprise-me request: the handler up to its await,
\* or an answer of one of the two services with all that follows it.
GenerateStep ==
    \/ handleGenerateRecipe
    \/ handleSurpriseMe
    \/ \E recipeText \in TextResponses : TextServiceReturns(recipeText)
    \/ \E e \in TextErrors : TextServiceThrows(e)
    \/ \E generatedImages \in ImageResponses : ImageServiceReturns(generatedImages)
    \/ ImageServiceThrows

\* C29: generating a recipe never touches the saved collection. Every step
\* of a generate or surprise-me request, whether the request succeeds, falls
\* back to the stock image or fails, leaves the saved collection in memory
\* and the storage slot as they were, so that a saved entry keeps the
\* imageUrl it was saved with.
C29_GenerateKeepsSaved == [][GenerateStep => UNCHANGED <<savedRecipes, storage>>]_vars

\* A request for "Suya" has ended with the stock image while an entry named
\* "Suya" is saved, in memory and in the slot, with the image it was saved
\* with.
C29_Witness ==
    /\ pc = "idle"
    /\ result.st = "resolved"
    /\ result.image = "threw"
    /\ GetProp(recipe, "recipeName") = Suya
    /\ IsFallbackRef(imageUrl)
    /\ \E i \in 1..Len(savedRecipes.a) :
          /\ GetProp(savedRecipes.a[i], "recipeName") = Suya
          /\ GetProp(savedRecipes.a[i], "imageUrl") = DataUrl(ImageBytes)
          /\ InSlot(storage, savedRecipes.a[i])

====
